---- MODULE Spec2Model ----
(***************************************************************************)
(* Wellora nutrition API: the sliding-window rate limiter and its HTTP     *)
(* middleware (app/core/rate_limit.py, app/main.py), the Redis cache       *)
(* manager and the daily-analytics handler that reads through it           *)
(* (app/core/cache.py, app/api/analytics.py), and idempotent meal creation *)
(* (app/services/meal_service.py, app/api/meals.py).                       *)
(*                                                                         *)
(* Every await of the Python code is one step of the model, so that        *)
(* concurrent requests interleave exactly where the event loop and the     *)
(* stores let them.                                                        *)
(***************************************************************************)
EXTENDS Integers, Sequences, FiniteSets, TLC

----------------------------------------------------------------------------
(* Bounds of the model.                                                    *)

\* Wall-clock seconds run from 0 to MaxTime.
MaxTime == 5

\* Number of HTTP requests of the one caller identifier that are modelled.
MaxRequests == 3

\* Number of requests that are being served at one moment.
MaxInFlight == 2

\* Number of POST /meals/ requests that are modelled.
MaxCalls == 3

\* Seconds in a day (86400), scaled to the clock of the model.
SecondsPerDay == 3

\* expiry_seconds of the analytics entries (app/api/analytics.py:42, 300), scaled.
analytics_expiry_seconds == 2

\* settings.rate_limit_requests (app/core/config.py:26, default 100), scaled.
rate_limit_requests == 2

\* settings.rate_limit_window in seconds (app/core/config.py:27, default 3600), scaled.
rate_limit_window == 3

----------------------------------------------------------------------------
(* Helpers.                                                                *)

Min(a, b) == IF a <= b THEN a ELSE b

\* Python's None.
None == "None"

\* A key of the Redis store without a time to live.
NoExpiry == 0 - 1

\* No string key of that name in Redis.
NoEntry == [value |-> <<>>, expireAt |-> NoExpiry]

----------------------------------------------------------------------------
(* State.                                                                  *)

VARIABLES
    now,            \* the wall clock, in whole seconds (time.time() truncated)
    limiterClient,  \* rate_limiter.redis_client: FALSE is None, TRUE is a client
    zset,           \* the sorted set rate_limit:<identifier>: {[member, score]}
    zttl,           \* the second at which that key expires, or NoExpiry
    req,            \* the requests of the identifier: locals, result, response
    overlapped,     \* history: TRUE once two requests were in flight together
    foods,          \* the rows of table foods: id -> the per-serving values
    meals,          \* the rows of table meals
    nextMealId,     \* the next value of the autoincrement primary key meals.id
    call,           \* the POST /meals/ requests: inputs, locals, response
    mcall,          \* the PATCH or DELETE /meals/{meal_id} request that ran last
    cacheClient,    \* cache_manager.redis_client: FALSE is None, TRUE is a client
    cache,          \* the string keys of Redis: key -> [value, expireAt] or NoEntry
    lastSet,        \* history: key of CacheKeys -> the last SETEX executed for it
    writer,         \* history: analytics key -> the request whose handler wrote it
    op,             \* history: the last call of a CacheManager method
    acall,          \* the analytics handler that ran last
    users,          \* the rows of table users: [id, email]
    nextUserId,     \* the next value of the primary key users.id
    rcall           \* the POST /auth/register requests: input, locals, response

rateVars == <<limiterClient, zset, zttl, req, overlapped>>

mealVars == <<foods, meals, nextMealId, call, mcall>>

cacheVars == <<cacheClient, cache, lastSet, writer, op, acall>>

userVars == <<users, nextUserId, rcall>>

vars == <<now, rateVars, mealVars, cacheVars, userVars>>

Requests == 1..MaxRequests

----------------------------------------------------------------------------
(* Redis sorted-set commands, as rate_limit.py uses them.                  *)

\* str(n) for a natural number: its decimal digits.
RECURSIVE Str(_)
Str(n) == IF n < 10 THEN <<n>> ELSE Append(Str(n \div 10), n % 10)

\* ZREMRANGEBYSCORE key lo hi: drops the members whose score is in [lo, hi].
ZRemRangeByScore(s, lo, hi) == {e \in s : ~(lo <= e.score /\ e.score <= hi)}

\* ZADD key {member: score}: a member is held once; its score is replaced.
ZAdd(s, member, score) ==
    {e \in s : e.member # member} \cup {[member |-> member, score |-> score]}

\* ZCARD key.
ZCard(s) == Cardinality(s)

\* ZRANGE key 0 0 WITHSCORES: the member of lowest score, as a list of 0 or 1.
ZRangeFirst(s) ==
    IF s = {} THEN <<>>
    ELSE <<CHOOSE e \in s : \A f \in s : e.score <= f.score>>

----------------------------------------------------------------------------
(* The request record.                                                     *)

IdleRequest ==
    [pc            |-> "idle",
     current_time  |-> 0,
     current_count |-> 0,
     outcome       |-> "none",
     allowed       |-> FALSE,
     remaining     |-> 0,
     reset_time    |-> 0,
     status        |-> 0,
     \* error.code of the body when the middleware or the Exception handler
     \* answers, "" otherwise
     error_code    |-> "",
     handlerRan    |-> FALSE,
     \* the X-RateLimit headers of the response: <<>>, or the one pair
     headers       |-> <<>>]

InFlight(r) == req[r].pc \notin {"idle", "done"}

\* Requests arrive in the order of their numbers, at most MaxInFlight at a time.
MayArrive(r) ==
    /\ req[r].pc = "idle"
    /\ \A q \in Requests : q < r => req[q].pc # "idle"
    /\ Cardinality({q \in Requests : InFlight(q)}) < MaxInFlight

\* rate_limit_middleware after is_allowed returned (allowed, remaining, reset):
\* a denied request is answered 429 by a fresh JSONResponse; an admitted one
\* runs its handler and the response gets the two X-RateLimit headers.
\* MiddlewareResponse without the `if not is_allowed` branch.
MiddlewareResponse_IgnoresDenial(allowed, remaining, reset) ==
    [status |-> 200, error_code |-> "", handlerRan |-> TRUE,
     headers |-> <<[remaining |-> remaining, reset |-> reset]>>]

MiddlewareResponse(allowed, remaining, reset) ==
    IF ~allowed
    THEN [status |-> 429, error_code |-> "RATE_LIMIT_EXCEEDED",
          handlerRan |-> FALSE, headers |-> <<>>]
    ELSE [status |-> 200, error_code |-> "", handlerRan |-> TRUE,
          headers |-> <<[remaining |-> remaining, reset |-> reset]>>]

\* is_allowed returned: the request record once the middleware has answered.
Answered(rec, outcome, allowed, remaining, reset) ==
    LET resp == MiddlewareResponse(allowed, remaining, reset)
    IN [rec EXCEPT !.pc = "done", !.outcome = outcome, !.allowed = allowed,
                   !.remaining = remaining, !.reset_time = reset,
                   !.status = resp.status, !.error_code = resp.error_code,
                   !.handlerRan = resp.handlerRan, !.headers = resp.headers]

\* A Redis command raised inside is_allowed: nothing catches it in is_allowed
\* or in the middleware, so the application's Exception handler answers 500.
Raised(rec) ==
    [rec EXCEPT !.pc = "done", !.outcome = "error", !.status = 500,
                !.error_code = "INTERNAL_ERROR"]

----------------------------------------------------------------------------
(* RateLimiter.is_allowed inside rate_limit_middleware, step by step.      *)

\* The middleware calls is_allowed. Without a client the call returns at once
\* (fail open); otherwise it reads the clock and queues ZREMRANGEBYSCORE on a
\* pipeline, which sends nothing yet.
Dispatch(r) ==
    /\ MayArrive(r)
    /\ overlapped' = (overlapped \/ \E q \in Requests : InFlight(q))
    /\ IF ~limiterClient
       THEN req' = [req EXCEPT ![r] =
                Answered(@, "failopen", TRUE, rate_limit_requests,
                         now + rate_limit_window)]
       ELSE req' = [req EXCEPT ![r] = [@ EXCEPT !.pc = "begun",
                                                !.current_time = now]]
    /\ UNCHANGED <<userVars, now, limiterClient, zset, zttl, mealVars, cacheVars>>

\* await redis_client.zcard(key): sent on its own, before the pipeline.
Zcard(r) ==
    /\ req[r].pc = "begun"
    /\ LET n == ZCard(zset)
       IN req' = [req EXCEPT ![r] =
            [@ EXCEPT !.current_count = n,
                      !.pc = IF n >= rate_limit_requests
                             THEN "rejecting" ELSE "counted"]]
    /\ UNCHANGED <<userVars, now, limiterClient, zset, zttl, overlapped, mealVars, cacheVars>>

\* The reset time of a rejection: oldest entry of the set plus the window.
ResetTimeOfRejection(oldest, current_time) ==
    IF oldest # <<>>
    THEN oldest[1].score + rate_limit_window
    ELSE current_time + rate_limit_window

\* count >= limit: await redis_client.zrange(key, 0, 0, withscores=True) and
\* return; the pipeline is dropped without being executed.
ZrangeAndReject(r) ==
    /\ req[r].pc = "rejecting"
    /\ req' = [req EXCEPT ![r] =
            Answered(@, "rejected", FALSE,
                     rate_limit_requests - @.current_count,
                     ResetTimeOfRejection(ZRangeFirst(zset), @.current_time))]
    /\ UNCHANGED <<userVars, now, limiterClient, zset, zttl, overlapped, mealVars, cacheVars>>

\* The member that records a request made at second t.
MemberOf(t) == Str(t)

\* What pipeline.execute() does to the sorted set, as one MULTI/EXEC:
\* ZREMRANGEBYSCORE key 0 (current_time - window); ZADD key {str(t): t}.
PipelineResult(s, current_time) ==
    ZAdd(ZRemRangeByScore(s, 0, current_time - rate_limit_window),
         MemberOf(current_time), current_time)

\* count < limit: await pipeline.execute() (purge, add, EXPIRE), then return
\* (True, limit - count - 1, current_time + window).
ExecuteAndAdmit(r) ==
    /\ req[r].pc = "counted"
    /\ zset' = PipelineResult(zset, req[r].current_time)
    /\ zttl' = now + rate_limit_window
    /\ req' = [req EXCEPT ![r] =
         Answered(@, "admitted", TRUE,
                  rate_limit_requests - @.current_count - 1,
                  @.current_time + rate_limit_window)]
    /\ UNCHANGED <<userVars, now, limiterClient, overlapped, mealVars, cacheVars>>

\* The Redis command the call is waiting for (ZCARD, ZRANGE or the pipeline's
\* EXEC) fails or times out: redis-py raises, and is_allowed has no try/except.
RedisCommandRaises(r) ==
    /\ req[r].pc \in {"begun", "rejecting", "counted"}
    /\ req' = [req EXCEPT ![r] = Raised(@)]
    /\ UNCHANGED <<userVars, now, limiterClient, zset, zttl, overlapped, mealVars, cacheVars>>

----------------------------------------------------------------------------
(* The environment of the rate limiter.                                    *)

\* lifespan startup: rate_limiter.init_limiter(redis_client).
init_limiter ==
    /\ ~limiterClient
    /\ limiterClient' = TRUE
    /\ UNCHANGED <<userVars, now, zset, zttl, req, overlapped, mealVars, cacheVars>>

\* Redis drops the key once its time to live has run out. EXPIRE was sent at
\* some instant of second zttl - window, so within second zttl the key may be
\* there or gone; after it the key is gone.
RateKeyExpires ==
    /\ zttl # NoExpiry
    /\ now >= zttl
    /\ zset' = {}
    /\ zttl' = NoExpiry
    /\ UNCHANGED <<userVars, now, limiterClient, req, overlapped, mealVars, cacheVars>>

\* A second passes; a key whose time to live ran out before it is gone.
Tick ==
    /\ now < MaxTime
    /\ now' = now + 1
    /\ IF zttl # NoExpiry /\ zttl < now + 1
       THEN zset' = {} /\ zttl' = NoExpiry
       ELSE UNCHANGED <<zset, zttl>>
    /\ cache' = [k \in DOMAIN cache |->
                    IF cache[k] # NoEntry /\ cache[k].expireAt < now + 1
                    THEN NoEntry ELSE cache[k]]
    /\ writer' = [k \in DOMAIN writer |->
                     IF cache[k] # NoEntry /\ cache[k].expireAt < now + 1
                     THEN <<>> ELSE writer[k]]
    /\ UNCHANGED <<userVars, limiterClient, req, overlapped, mealVars, cacheClient,
                   lastSet, op, acall>>

----------------------------------------------------------------------------
(* Meal creation: POST /meals/ and MealService.create_meal_log.            *)

\* Table foods as it is seeded: the per-serving values of each food.
FoodTable ==
    (3 :> [name |-> "oats", serving_size_g |-> 40,
           calories |-> 100, protein_g |-> 10, carbs_g |-> 20, fat_g |-> 5])

\* The requests a client sends: user, MealCreate.food_id, .servings and
\* .timestamp (Optional: <<>> is None, <<d>> is a datetime of day d), and the
\* Idempotency-Key header. Food 4 is not in the table; the header is absent
\* (None), a token, or empty.
MealInput(u, f, n, k, t) ==
    [user_id |-> u, food_id |-> f, servings |-> n, key |-> k, timestamp |-> t]

MealInputs ==
    {MealInput(7, fs[1], fs[2], k, <<>>) :
        fs \in {<<3, 1>>, <<3, 2>>, <<4, 1>>}, k \in {None, "abc"}}
    \cup {MealInput(8, 3, 1, k, <<>>) : k \in {None, "abc"}}
    \cup {MealInput(7, 3, 1, "", <<>>), MealInput(7, 3, 2, None, <<1>>)}

\* The date of utc_now(): the clock in days.
Today == now \div SecondsPerDay

\* Truthiness as it would be if None were a key like any other.
Truthy_NoneIsAKey(k) == k # ""

\* Python truthiness of an Optional[str]: None and "" are falsy.
Truthy(k) == k \notin {None, ""}

Calls == 1..MaxCalls

IdleCall ==
    [pc       |-> "idle",
     user_id  |-> None,
     food_id  |-> None,
     servings |-> None,
     key      |-> None,
     timestamp |-> <<>>,
     \* history: the user's meals with this key when the request arrived
     seen     |-> {},
     \* history: TRUE once this call has inserted a row
     inserted |-> FALSE,
     \* history: TRUE when a statement of this call failed in the store
     failed   |-> FALSE,
     \* history: the call this one retries, 0 for none
     retryOf  |-> 0,
     \* history: the exception that ended the call, "" for none, and the
     \* function it was raised in
     error    |-> "",
     raisedIn |-> "",
     result   |-> None,
     \* <<>> or the content of the error response
     body     |-> <<>>,
     status   |-> 0]

CallInFlight(c) == call[c].pc \notin {"idle", "done"}

\* Calls arrive in the order of their numbers, at most MaxInFlight at a time.
CallMayArrive(c) ==
    /\ call[c].pc = "idle"
    /\ \A d \in Calls : d < c => call[d].pc # "idle"
    /\ Cardinality({d \in Calls : CallInFlight(d)}) < MaxInFlight

\* http_exception_handler: the response to an HTTPException.
http_exception_handler(status_code, detail) ==
    [status |-> status_code,
     body |-> [error |-> [code |-> ToString(status_code), message |-> detail]]]

InternalServerError == <<"An", "internal", "server", "error", "occurred.">>

\* general_exception_handler: the response to an exception that no route
\* caught; the exception is logged and does not reach the body.
general_exception_handler(exc) ==
    [status |-> 500,
     body |-> [error |-> [code |-> "INTERNAL_ERROR",
                          message |-> InternalServerError]]]

CreateMealFailed ==
    <<"An", "error", "occurred", "while", "creating", "the", "meal", "log.">>

\* detail=f"Food with id {meal_data.food_id} not found"
FoodNotFound(food_id) ==
    <<"Food", "with", "id", ToString(food_id), "not", "found">>

\* The route as it would be if it put the text of the exception in detail.
CreateMealLogError_WithErrorText(e) == http_exception_handler(500, <<e>>)

\* `except Exception as e` of the route create_meal_log: the exception is
\* logged and HTTPException(500) with a fixed detail is raised.
CreateMealLogError(e) == http_exception_handler(500, CreateMealFailed)

\* The lookup as it would be if the key alone were matched.
MealsWithKey_OfAnyUser(u, k) == {m \in meals : m.idempotency_key = k}

\* select(Meal).where(user_id == u, idempotency_key == k)
MealsWithKey(u, k) ==
    {m \in meals : m.user_id = u /\ m.idempotency_key = k}

\* The Meal object create_meal_log builds: totals are food value * servings,
\* the timestamp is the client's or utc_now() (kept to the day).
NewMeal(id, u, f, s, k, t) ==
    [id              |-> id,
     user_id         |-> u,
     food_id         |-> f,
     servings        |-> s,
     timestamp       |-> IF t # <<>> THEN t[1] ELSE Today,
     calories        |-> foods[f].calories * s,
     protein_g       |-> foods[f].protein_g * s,
     carbs_g         |-> foods[f].carbs_g * s,
     fat_g           |-> foods[f].fat_g * s,
     idempotency_key |-> k]

\* The route calls the service; `if idempotency_key:` decides whether the
\* lookup runs.
StartsWithLookup(k) == Truthy(k)

CreateMealRequest(c, in) ==
    /\ CallMayArrive(c)
    /\ call' = [call EXCEPT ![c] =
            [@ EXCEPT !.pc = IF StartsWithLookup(in.key)
                             THEN "lookup" ELSE "getfood",
                      !.user_id = in.user_id, !.food_id = in.food_id,
                      !.servings = in.servings, !.key = in.key,
                      !.timestamp = in.timestamp,
                      !.seen = MealsWithKey(in.user_id, in.key)]]
    /\ UNCHANGED <<userVars, foods, meals, nextMealId, mcall, now, rateVars, cacheVars>>

\* await db_session.execute(select ...); scalar_one_or_none(): no row goes on
\* to create, one row is returned as it is (status 201 of the route), several
\* rows raise MultipleResultsFound, which the route turns into 500.
LookupExisting(c) ==
    /\ call[c].pc = "lookup"
    /\ LET found == MealsWithKey(call[c].user_id, call[c].key)
       IN call' = [call EXCEPT ![c] =
            IF found = {} THEN [@ EXCEPT !.pc = "getfood"]
            ELSE IF Cardinality(found) = 1
                 THEN [@ EXCEPT !.pc = "done", !.status = 201,
                                !.result = CHOOSE m \in found : TRUE]
                 ELSE [@ EXCEPT !.pc = "done", !.status = 500,
                          !.error = "MultipleResultsFound",
                          !.raisedIn = "create_meal_log",
                          !.body = <<CreateMealLogError("MultipleResultsFound").body>>]]
    /\ UNCHANGED <<userVars, foods, meals, nextMealId, mcall, now, rateVars, cacheVars>>

\* GetFood with the missing food reported by a plain exception, which the
\* route answers with 500.
GetFood_RaisesPlainError(c) ==
    /\ call[c].pc = "getfood"
    /\ call' = [call EXCEPT ![c] =
            IF call[c].food_id \in DOMAIN foods
            THEN [@ EXCEPT !.pc = "commit"]
            ELSE [@ EXCEPT !.pc = "done", !.status = 500,
                          !.error = "ValueError",
                          !.raisedIn = "create_meal_log",
                          !.body = <<CreateMealLogError("ValueError").body>>]]
    /\ UNCHANGED <<userVars, foods, meals, nextMealId, mcall, now, rateVars, cacheVars>>

\* await db_session.get(Food, food_id): a missing food raises 404.
GetFood(c) ==
    /\ call[c].pc = "getfood"
    /\ call' = [call EXCEPT ![c] =
            IF call[c].food_id \in DOMAIN foods
            THEN [@ EXCEPT !.pc = "commit"]
            ELSE [@ EXCEPT !.pc = "done", !.status = 404,
                      !.body = <<http_exception_handler(
                                   404, FoodNotFound(call[c].food_id)).body>>]]
    /\ UNCHANGED <<userVars, foods, meals, nextMealId, mcall, now, rateVars, cacheVars>>

\* create_meal_log as it would be if it deleted the cached analytics.
CommitMeal_InvalidatesCache(c) ==
    /\ call[c].pc = "commit"
    /\ LET row == NewMeal(nextMealId, call[c].user_id, call[c].food_id,
                          call[c].servings, call[c].key, call[c].timestamp)
       IN /\ meals' = meals \cup {row}
          /\ call' = [call EXCEPT ![c] =
                [@ EXCEPT !.pc = "done", !.status = 201, !.result = row,
                          !.inserted = TRUE]]
    /\ nextMealId' = nextMealId + 1
    /\ cache' = [k \in DOMAIN cache |-> NoEntry]
    /\ UNCHANGED <<userVars, foods, mcall, now, rateVars, cacheClient, lastSet, writer, op, acall>>

\* db_session.add(db_meal); await commit(); await refresh(db_meal); return.
CommitMeal(c) ==
    /\ call[c].pc = "commit"
    /\ LET row == NewMeal(nextMealId, call[c].user_id, call[c].food_id,
                          call[c].servings, call[c].key, call[c].timestamp)
       IN /\ meals' = meals \cup {row}
          /\ call' = [call EXCEPT ![c] =
                [@ EXCEPT !.pc = "done", !.status = 201, !.result = row,
                          !.inserted = TRUE]]
    /\ nextMealId' = nextMealId + 1
    /\ UNCHANGED <<userVars, foods, mcall, now, rateVars, cacheVars>>

\* The relational store fails while the call awaits its lookup or
\* db_session.get(Food): the exception leaves the service and the route
\* answers 500.
StoreRaises(c) ==
    /\ call[c].pc \in {"lookup", "getfood"}
    /\ call' = [call EXCEPT ![c] =
            [@ EXCEPT !.pc = "done", !.status = 500, !.failed = TRUE,
                      !.error = "OperationalError",
                      !.raisedIn = "create_meal_log",
                      !.body = <<CreateMealLogError("OperationalError").body>>]]
    /\ UNCHANGED <<userVars, foods, meals, nextMealId, mcall, now, rateVars, cacheVars>>

\* await db_session.commit() fails: nothing is persisted, the route answers 500.
CommitRaises(c) ==
    /\ call[c].pc = "commit"
    /\ call' = [call EXCEPT ![c] =
            [@ EXCEPT !.pc = "done", !.status = 500, !.failed = TRUE,
                      !.error = "IntegrityError",
                      !.raisedIn = "create_meal_log",
                      !.body = <<CreateMealLogError("IntegrityError").body>>]]
    /\ UNCHANGED <<userVars, foods, meals, nextMealId, mcall, now, rateVars, cacheVars>>

\* The commit succeeds and await db_session.refresh(db_meal) fails: the row is
\* persisted, the route answers 500.
RefreshRaises(c) ==
    /\ call[c].pc = "commit"
    /\ LET row == NewMeal(nextMealId, call[c].user_id, call[c].food_id,
                          call[c].servings, call[c].key, call[c].timestamp)
       IN meals' = meals \cup {row}
    /\ call' = [call EXCEPT ![c] =
            [@ EXCEPT !.pc = "done", !.status = 500, !.failed = TRUE,
                      !.inserted = TRUE,
                      !.error = "InvalidRequestError",
                      !.raisedIn = "create_meal_log",
                      !.body = <<CreateMealLogError("InvalidRequestError").body>>]]
    /\ nextMealId' = nextMealId + 1
    /\ UNCHANGED <<userVars, foods, mcall, now, rateVars, cacheVars>>

\* The client of call c, answered 500, sends the same request again.
ClientRetries(d, c) ==
    /\ CallMayArrive(d)
    /\ call[c].pc = "done"
    /\ call[c].status = 500
    /\ call' = [call EXCEPT ![d] =
            [@ EXCEPT !.pc = IF StartsWithLookup(call[c].key)
                             THEN "lookup" ELSE "getfood",
                      !.user_id = call[c].user_id, !.food_id = call[c].food_id,
                      !.servings = call[c].servings, !.key = call[c].key,
                      !.timestamp = call[c].timestamp,
                      !.seen = MealsWithKey(call[c].user_id, call[c].key),
                      !.retryOf = c]]
    /\ UNCHANGED <<userVars, foods, meals, nextMealId, mcall, now, rateVars, cacheVars>>

\* The request arrives and db.get(User, user_id) of the dependency
\* get_current_user raises before the route runs: no route catches it and
\* the application's Exception handler answers.
DependencyRaises(c, in) ==
    /\ CallMayArrive(c)
    /\ call' = [call EXCEPT ![c] =
            [@ EXCEPT !.pc = "done",
                      !.user_id = in.user_id, !.food_id = in.food_id,
                      !.servings = in.servings, !.key = in.key,
                      !.timestamp = in.timestamp,
                      !.seen = MealsWithKey(in.user_id, in.key),
                      !.failed = TRUE,
                      !.error = "InterfaceError",
                      !.raisedIn = "get_current_user",
                      !.status = general_exception_handler("InterfaceError").status,
                      !.body = <<general_exception_handler("InterfaceError").body>>]]
    /\ UNCHANGED <<userVars, foods, meals, nextMealId, mcall, now, rateVars, cacheVars>>

----------------------------------------------------------------------------
(* PATCH and DELETE /meals/{meal_id}: MealService.update_meal_log and      *)
(* MealService.delete_meal_log, served one request at a time.              *)

\* The request before it arrives. servings and timestamp are the fields of
\* MealUpdate, <<>> for a field the client did not set; db_meal is <<>> or the
\* one row that get_meal_by_id loaded; result is <<>> or the one row returned.
IdleMutation ==
    [pc |-> "idle", kind |-> "", user_id |-> 0, meal_id |-> 0,
     servings |-> <<>>, timestamp |-> <<>>, db_meal |-> <<>>,
     status |-> 0, result |-> <<>>]

\* The MealUpdate bodies clients send.
MealUpdates ==
    {[servings |-> <<>>, timestamp |-> <<>>],
     [servings |-> <<2>>, timestamp |-> <<>>],
     [servings |-> <<>>, timestamp |-> <<1>>]}

\* The meal ids clients name.
MealIds == 1..MaxCalls

\* The select as it would be if the id alone were matched.
MealOfUser_OfAnyUser(u, id) == {m \in meals : m.id = id}

\* select(Meal).where(Meal.id == meal_id, Meal.user_id == user_id)
MealOfUser(u, id) == {m \in meals : m.id = id /\ m.user_id = u}

\* The row as it would be if an update never computed the totals again.
UpdatedMeal_KeepsMacros(m, servings, timestamp) ==
    LET m1 == IF servings # <<>> THEN [m EXCEPT !.servings = servings[1]] ELSE m
    IN IF timestamp # <<>> THEN [m1 EXCEPT !.timestamp = timestamp[1]] ELSE m1

\* The row after setattr of the fields that were set, and after the totals
\* are computed again when servings is among them and the food exists.
UpdatedMeal(m, servings, timestamp) ==
    LET m1 == IF servings # <<>> THEN [m EXCEPT !.servings = servings[1]] ELSE m
        m2 == IF timestamp # <<>> THEN [m1 EXCEPT !.timestamp = timestamp[1]]
              ELSE m1
    IN IF servings # <<>> /\ m2.food_id \in DOMAIN foods
       THEN [m2 EXCEPT !.calories = foods[m2.food_id].calories * m2.servings,
                       !.protein_g = foods[m2.food_id].protein_g * m2.servings,
                       !.carbs_g = foods[m2.food_id].carbs_g * m2.servings,
                       !.fat_g = foods[m2.food_id].fat_g * m2.servings]
       ELSE m2

MutationIdle == mcall.pc \in {"idle", "done"}

\* PATCH /meals/{meal_id} arrives.
update_meal_log(u, id, upd) ==
    /\ MutationIdle
    /\ mcall' = [IdleMutation EXCEPT !.pc = "select", !.kind = "update",
                                     !.user_id = u, !.meal_id = id,
                                     !.servings = upd.servings,
                                     !.timestamp = upd.timestamp]
    /\ UNCHANGED <<userVars, foods, meals, nextMealId, call, now, rateVars, cacheVars>>

\* DELETE /meals/{meal_id} arrives.
delete_meal_log(u, id) ==
    /\ MutationIdle
    /\ mcall' = [IdleMutation EXCEPT !.pc = "select", !.kind = "delete",
                                     !.user_id = u, !.meal_id = id]
    /\ UNCHANGED <<userVars, foods, meals, nextMealId, call, now, rateVars, cacheVars>>

\* GET /meals/{meal_id} arrives.
get_meal(u, id) ==
    /\ MutationIdle
    /\ mcall' = [IdleMutation EXCEPT !.pc = "select", !.kind = "get",
                                     !.user_id = u, !.meal_id = id]
    /\ UNCHANGED <<userVars, foods, meals, nextMealId, call, now, rateVars, cacheVars>>

\* The MealListParams clients send: the defaults, and one item of the second
\* page of the meals from day 1 on.
ListParams ==
    {[limit |-> 10, offset |-> 0, start_date |-> <<>>, end_date |-> <<>>],
     [limit |-> 1, offset |-> 1, start_date |-> <<1>>, end_date |-> <<>>],
     [limit |-> 1, offset |-> 0, start_date |-> <<>>, end_date |-> <<0>>]}

\* order_by(Meal.timestamp.desc()): the rows, newest first; rows of one
\* timestamp come in the order of their ids.
RECURSIVE NewestFirst(_)
NewestFirst(rows) ==
    IF rows = {} THEN <<>>
    ELSE LET first == CHOOSE m \in rows :
                 \A n \in rows : \/ n.timestamp < m.timestamp
                                 \/ n.timestamp = m.timestamp /\ n.id >= m.id
         IN <<first>> \o NewestFirst(rows \ {first})

\* MealService.list_meals: the rows of the user inside the dates, counted,
\* then ordered and cut to offset and limit.
MealsListed(u, params) ==
    LET rows == {m \in meals :
                    /\ m.user_id = u
                    /\ params.start_date # <<>> => m.timestamp >= params.start_date[1]
                    /\ params.end_date # <<>> => m.timestamp <= params.end_date[1]}
        ordered == NewestFirst(rows)
        last == IF params.offset + params.limit < Len(ordered)
                THEN params.offset + params.limit ELSE Len(ordered)
    IN [items |-> SubSeq(ordered, params.offset + 1, last),
        total |-> Cardinality(rows)]

\* GET /meals/: the route answers 200 with the items and the total.
list_meals(u, params) ==
    /\ MutationIdle
    /\ mcall' = [IdleMutation EXCEPT !.pc = "done", !.kind = "list",
                                     !.user_id = u, !.status = 200,
                                     !.result = <<MealsListed(u, params)>>]
    /\ UNCHANGED <<userVars, foods, meals, nextMealId, call, now, rateVars, cacheVars>>

\* db_meal = await self.get_meal_by_id(user_id, meal_id): no row of the user
\* with that id makes the service return None or False and the route answer
\* 404; GET /meals/{meal_id} returns the row it found.
get_meal_by_id ==
    /\ mcall.pc = "select"
    /\ LET found == MealOfUser(mcall.user_id, mcall.meal_id)
       IN mcall' = IF found = {}
                   THEN [mcall EXCEPT !.pc = "done", !.status = 404]
                   ELSE IF mcall.kind = "get"
                   THEN [mcall EXCEPT !.pc = "done", !.status = 200,
                                      !.result = <<CHOOSE m \in found : TRUE>>]
                   ELSE [mcall EXCEPT !.pc = "commit",
                                      !.db_meal = <<CHOOSE m \in found : TRUE>>]
    /\ UNCHANGED <<userVars, foods, meals, nextMealId, call, now, rateVars, cacheVars>>

\* The rest of update_meal_log: setattr, the totals, commit and refresh. The
\* UPDATE of a row that is gone raises, which the route answers with 500.
CommitUpdate ==
    /\ mcall.pc = "commit"
    /\ mcall.kind = "update"
    /\ LET old == {m \in meals : m.id = mcall.meal_id}
           row == UpdatedMeal(mcall.db_meal[1], mcall.servings, mcall.timestamp)
       IN IF old = {}
          THEN /\ mcall' = [mcall EXCEPT !.pc = "done", !.status = 500]
               /\ UNCHANGED meals
          ELSE /\ meals' = (meals \ old) \cup {row}
               /\ mcall' = [mcall EXCEPT !.pc = "done", !.status = 200,
                                         !.result = <<row>>]
    /\ UNCHANGED <<userVars, foods, nextMealId, call, now, rateVars, cacheVars>>

\* The rest of delete_meal_log: delete and commit; the route answers 204.
CommitDelete ==
    /\ mcall.pc = "commit"
    /\ mcall.kind = "delete"
    /\ LET old == {m \in meals : m.id = mcall.meal_id}
       IN IF old = {}
          THEN /\ mcall' = [mcall EXCEPT !.pc = "done", !.status = 500]
               /\ UNCHANGED meals
          ELSE /\ meals' = meals \ old
               /\ mcall' = [mcall EXCEPT !.pc = "done", !.status = 204]
    /\ UNCHANGED <<userVars, foods, nextMealId, call, now, rateVars, cacheVars>>

\* The FoodUpdate bodies an administrator sends: calories set, the other
\* fields not set.
FoodUpdates == {[calories |-> <<120>>]}

\* PATCH /foods/{food_id}: FoodService.update_food sets the fields that the
\* body carries and commits. A food that does not exist changes nothing (404).
update_food(id, upd) ==
    /\ id \in DOMAIN foods
    /\ foods' = [foods EXCEPT ![id] =
           IF upd.calories # <<>> THEN [@ EXCEPT !.calories = upd.calories[1]]
           ELSE @]
    /\ UNCHANGED <<userVars, meals, nextMealId, call, mcall, now, rateVars,
                   cacheVars>>

MealInit ==
    /\ foods = FoodTable
    /\ meals = {}
    /\ nextMealId = 1
    /\ call = [c \in Calls |-> IdleCall]
    /\ mcall = IdleMutation

MealNext ==
    \/ \E c \in Calls, in \in MealInputs : CreateMealRequest(c, in)
    \/ \E c \in Calls : LookupExisting(c)
    \/ \E c \in Calls : GetFood(c)
    \/ \E c \in Calls : CommitMeal(c)

----------------------------------------------------------------------------
(* Python values and their JSON text (json.dumps / json.loads).            *)

\* A Python value: its type, and the payload of that type (the text of a str,
\* the number of an int, the truth of a bool as 0/1, the items of a list, the
\* keys and values of a dict in turn).
PyValue(t, str, n, items) == [t |-> t, s |-> str, n |-> n, items |-> items]

PyNone == PyValue("NoneType", "", 0, <<>>)

PyBool(b) == PyValue("bool", "", IF b THEN 1 ELSE 0, <<>>)

PyInt(n) == PyValue("int", "", n, <<>>)

PyStr(str) == PyValue("str", str, 0, <<>>)

PyList(items) == PyValue("list", "", 0, items)

\* A dict of str keys: items is <<key1, value1, key2, value2, ...>>.
PyDict(items) == PyValue("dict", "", 0, items)

\* bool(v) of Python.
PyTruthy(v) ==
    CASE v.t = "NoneType" -> FALSE
      [] v.t \in {"bool", "int"} -> v.n # 0
      [] v.t = "str" -> v.s # ""
      [] OTHER -> v.items # <<>>

\* A token of JSON text.
Tok(k, str, n) == [k |-> k, s |-> str, n |-> n]

Punct(c) == Tok("punct", c, 0)

RECURSIVE json_dumps(_), DumpItems(_, _), DumpMembers(_, _)

\* json.dumps(v), as the sequence of tokens of the text.
json_dumps(v) ==
    CASE v.t = "NoneType" -> <<Tok("lit", "null", 0)>>
      [] v.t = "bool" -> <<Tok("lit", IF v.n = 1 THEN "true" ELSE "false", 0)>>
      [] v.t = "int" -> <<Tok("num", "", v.n)>>
      [] v.t = "str" -> <<Tok("str", v.s, 0)>>
      [] v.t = "list" -> <<Punct("[")>> \o DumpItems(v.items, 1) \o <<Punct("]")>>
      [] v.t = "dict" -> <<Punct("{")>> \o DumpMembers(v.items, 1) \o <<Punct("}")>>

DumpItems(items, i) ==
    IF i > Len(items) THEN <<>>
    ELSE (IF i > 1 THEN <<Punct(",")>> ELSE <<>>)
         \o json_dumps(items[i]) \o DumpItems(items, i + 1)

DumpMembers(items, i) ==
    IF i > Len(items) THEN <<>>
    ELSE (IF i > 1 THEN <<Punct(",")>> ELSE <<>>)
         \o json_dumps(items[i]) \o <<Punct(":")>> \o json_dumps(items[i + 1])
         \o DumpMembers(items, i + 2)

RECURSIVE ParseValue(_), ParseItems(_, _, _)

\* Parses one JSON value at the head of toks: [val, rest].
ParseValue(toks) ==
    LET h == Head(toks)
    IN CASE h.k = "lit" ->
              [val |-> IF h.s = "null" THEN PyNone ELSE PyBool(h.s = "true"),
               rest |-> Tail(toks)]
         [] h.k = "num" -> [val |-> PyInt(h.n), rest |-> Tail(toks)]
         [] h.k = "str" -> [val |-> PyStr(h.s), rest |-> Tail(toks)]
         [] h = Punct("[") -> ParseItems(Tail(toks), <<>>, "list")
         [] h = Punct("{") -> ParseItems(Tail(toks), <<>>, "dict")

\* Parses the items of an array, or the keys and values of an object, up to
\* the closing bracket.
ParseItems(toks, acc, t) ==
    LET h == Head(toks)
    IN IF h \in {Punct("]"), Punct("}")}
       THEN [val |-> PyValue(t, "", 0, acc), rest |-> Tail(toks)]
       ELSE IF h \in {Punct(","), Punct(":")}
            THEN ParseItems(Tail(toks), acc, t)
            ELSE LET r == ParseValue(toks)
                 IN ParseItems(r.rest, Append(acc, r.val), t)

\* json.loads(text).
json_loads(toks) == ParseValue(toks).val

----------------------------------------------------------------------------
(* CacheManager (app/core/cache.py).                                       *)

\* The keys callers use.
CacheKeys == {"k1", "k2"}

\* The values callers cache.
CacheValues ==
    {PyNone, PyBool(FALSE), PyInt(0), PyList(<<>>), PyDict(<<>>),
     PyDict(<<PyStr("a"), PyList(<<PyInt(1), PyNone>>)>>)}

\* The expiry_seconds callers pass.
TtlValues == {1, 2}

\* GET key: the stored bytes, or None (here <<>>) when the key does not exist.
RedisGet(key) == cache[key].value

\* `if cached_value:` on the reply of GET: None and b"" are falsy.
ReplyTruthy(reply) == reply # <<>>

\* get_cached_data(key), where ok tells whether the Redis command succeeds:
\* what the method returns, and whether it raises.
GetCachedData(key, ok) ==
    IF ~cacheClient THEN [raised |-> FALSE, value |-> PyNone]
    ELSE IF ~ok THEN [raised |-> FALSE, value |-> PyNone]
    ELSE IF ReplyTruthy(RedisGet(key))
         THEN [raised |-> FALSE, value |-> json_loads(RedisGet(key))]
         ELSE [raised |-> FALSE, value |-> PyNone]

\* set_cached_data as it would be if it never wrote to the store.
SetCachedData_NeverStores(key, data, expiry_seconds, ok) ==
    [raised |-> FALSE, cache |-> cache]

\* set_cached_data(key, data, expiry_seconds): the store afterwards and
\* whether the method raises. SETEX replaces the value and the time to live.
SetCachedData(key, data, expiry_seconds, ok) ==
    IF ~cacheClient \/ ~ok THEN [raised |-> FALSE, cache |-> cache]
    ELSE [raised |-> FALSE,
          cache |-> [cache EXCEPT ![key] =
                        [value |-> json_dumps(data),
                         expireAt |-> now + expiry_seconds]]]

\* delete_cached_data(key): the store afterwards and whether the method raises.
DeleteCachedData(key, ok) ==
    IF ~cacheClient \/ ~ok THEN [raised |-> FALSE, cache |-> cache]
    ELSE [raised |-> FALSE, cache |-> [cache EXCEPT ![key] = NoEntry]]

NoOp == [name |-> "none", key |-> "", ok |-> TRUE, raised |-> FALSE,
         value |-> PyNone]

NoSet == [value |-> PyNone, expireAt |-> NoExpiry]

\* lifespan startup: cache_manager.connect().
connect ==
    /\ ~cacheClient
    /\ cacheClient' = TRUE
    /\ UNCHANGED <<userVars, now, rateVars, mealVars, acall, cache, lastSet, writer, op>>

\* A caller awaits get_cached_data(key).
get_cached_data(key, ok) ==
    /\ LET r == GetCachedData(key, ok)
       IN op' = [name |-> "get", key |-> key, ok |-> cacheClient /\ ok,
                 raised |-> r.raised, value |-> r.value]
    /\ UNCHANGED <<userVars, now, rateVars, mealVars, acall, cacheClient, cache, lastSet,
                   writer>>

\* A caller awaits set_cached_data(key, data, expiry_seconds).
set_cached_data(key, data, expiry_seconds, ok) ==
    /\ LET r == SetCachedData(key, data, expiry_seconds, ok)
       IN /\ cache' = r.cache
          /\ op' = [name |-> "set", key |-> key, ok |-> cacheClient /\ ok,
                    raised |-> r.raised, value |-> data]
    /\ lastSet' = IF cacheClient /\ ok
                  THEN [lastSet EXCEPT ![key] =
                           [value |-> data, expireAt |-> now + expiry_seconds]]
                  ELSE lastSet
    /\ UNCHANGED <<userVars, now, rateVars, mealVars, acall, cacheClient, writer>>

\* A caller awaits delete_cached_data(key).
delete_cached_data(key, ok) ==
    /\ LET r == DeleteCachedData(key, ok)
       IN /\ cache' = r.cache
          /\ op' = [name |-> "delete", key |-> key, ok |-> cacheClient /\ ok,
                    raised |-> r.raised, value |-> PyNone]
    /\ lastSet' = IF cacheClient /\ ok
                  THEN [lastSet EXCEPT ![key] = NoSet]
                  ELSE lastSet
    /\ UNCHANGED <<userVars, now, rateVars, mealVars, acall, cacheClient, writer>>

\* Redis drops a key whose time to live has run out. SETEX ran at some instant
\* of second expireAt - ttl, so within second expireAt the key may be there or
\* gone; after it the key is gone.
CacheEntryExpires(key) ==
    /\ cache[key] # NoEntry
    /\ now >= cache[key].expireAt
    /\ cache' = [cache EXCEPT ![key] = NoEntry]
    /\ writer' = [k \in DOMAIN writer |-> IF k = key THEN <<>> ELSE writer[k]]
    /\ UNCHANGED <<userVars, now, rateVars, mealVars, acall, cacheClient, lastSet, op>>

----------------------------------------------------------------------------
(* GET /analytics/daily (app/api/analytics.py) and                         *)
(* AnalyticsService.get_daily_analytics (app/services/analytics_service.py). *)

\* Table users: the daily_calorie_goal of each user, <<>> being NULL.
UserTable ==
    (7 :> [daily_calorie_goal |-> <<150>>]) @@ (8 :> [daily_calorie_goal |-> <<>>])

\* The days the clock of the model reaches.
Days == 0..(MaxTime \div SecondsPerDay)

\* date.isoformat() of day d.
IsoDate(d) ==
    IF d >= 0 THEN "1970-01-0" \o ToString(d + 1)
    ELSE "1969-12-" \o ToString(32 + d)

\* datetime.fromisoformat(text).date(): <<d>>, or <<>> for a ValueError.
FromIsoFormat(text) ==
    IF \E d \in Days : IsoDate(d) = text
    THEN <<CHOOSE d \in Days : IsoDate(d) = text>>
    ELSE <<>>

\* The values of the query parameter target_date, <<>> being none given.
TargetDates == {<<>>, <<IsoDate(0)>>, <<"today">>}

\* The key of the daily analytics as it would be without the date.
DailyKey_WithoutDate(u, d) == "analytics_daily:" \o ToString(u)

\* cache_key of the daily analytics of user u on day d.
DailyKey(u, d) == "analytics_daily:" \o ToString(u) \o ":" \o IsoDate(d)

DailyKeys == {DailyKey(u, d) : u \in DOMAIN UserTable, d \in Days}

\* cache_key of the weekly trends of user u.
WeeklyKey(u) == "analytics_weekly:" \o ToString(u)

WeeklyKeys == {WeeklyKey(u) : u \in DOMAIN UserTable}

\* cache_key of the recommendation of user u.
RecoKey(u) == "analytics_recommendation:" \o ToString(u)

RecoKeys == {RecoKey(u) : u \in DOMAIN UserTable}

\* The analytics keys that Redis may hold.
AnalyticsKeys == DailyKeys \cup WeeklyKeys \cup RecoKeys

\* The string keys that Redis may hold.
RedisKeys == CacheKeys \cup DailyKeys \cup WeeklyKeys \cup RecoKeys

RECURSIVE SumOf(_, _)

\* func.sum over a set of rows of the column that field names; 0 for no row
\* (`or 0.0` on NULL).
SumOf(rows, field) ==
    IF rows = {} THEN 0
    ELSE LET m == CHOOSE x \in rows : TRUE
         IN m[field] + SumOf(rows \ {m}, field)

\* The meals of user u whose timestamp is in day d.
MealsOfDay(u, d) == {m \in meals : m.user_id = u /\ m.timestamp = d}

\* AnalyticsService.get_daily_analytics(user_id, target_date): the
\* DailyAnalytics it returns.
DailyAnalyticsOf(u, d) ==
    LET total_calories_consumed == SumOf(MealsOfDay(u, d), "calories")
        goal == UserTable[u].daily_calorie_goal
        daily_calorie_goal == IF goal = <<>> THEN 0 ELSE goal[1]
    IN [date |-> IsoDate(d),
        total_protein_g |-> SumOf(MealsOfDay(u, d), "protein_g"),
        total_carbs_g |-> SumOf(MealsOfDay(u, d), "carbs_g"),
        total_fat_g |-> SumOf(MealsOfDay(u, d), "fat_g"),
        daily_calorie_goal |-> daily_calorie_goal,
        remaining_calories |-> daily_calorie_goal - total_calories_consumed,
        status |-> IF total_calories_consumed <= daily_calorie_goal
                   THEN "On Track" ELSE "Exceeded"]

\* DailyAnalytics.model_dump(): the dict of the fields.
model_dump(m) ==
    PyDict(<<PyStr("date"), PyStr(m.date),
             PyStr("total_protein_g"), PyInt(m.total_protein_g),
             PyStr("total_carbs_g"), PyInt(m.total_carbs_g),
             PyStr("total_fat_g"), PyInt(m.total_fat_g),
             PyStr("daily_calorie_goal"), PyInt(m.daily_calorie_goal),
             PyStr("remaining_calories"), PyInt(m.remaining_calories),
             PyStr("status"), PyStr(m.status)>>)

\* d[name] of a dict.
DictGet(d, name) ==
    d.items[(CHOOSE i \in 1..Len(d.items) :
                 i % 2 = 1 /\ d.items[i] = PyStr(name)) + 1]

\* DailyAnalytics.model_validate(v): the model of a dict of the fields.
model_validate(v) ==
    [date |-> DictGet(v, "date").s,
     total_protein_g |-> DictGet(v, "total_protein_g").n,
     total_carbs_g |-> DictGet(v, "total_carbs_g").n,
     total_fat_g |-> DictGet(v, "total_fat_g").n,
     daily_calorie_goal |-> DictGet(v, "daily_calorie_goal").n,
     remaining_calories |-> DictGet(v, "remaining_calories").n,
     status |-> DictGet(v, "status").s]

\* The handler before the middleware calls it. r is the request it serves,
\* response is <<>> or the one DailyAnalytics of the body; getFailed and
\* setFailed record that the Redis command of the cache call failed.
IdleHandler ==
    [pc |-> "idle", kind |-> "", r |-> 0, user_id |-> 0, cache_key |-> "", parsed_date |-> 0,
     analytics_data |-> <<>>, getFailed |-> FALSE, setFailed |-> FALSE,
     hit |-> FALSE, status |-> 0, response |-> <<>>]

\* The request that handler h serves: the route, the user and the date.
WriterOf(h) ==
    [kind |-> h.kind, user_id |-> h.user_id, parsed_date |-> h.parsed_date]

HandlerRuns == acall.pc \notin {"idle", "done"}

\* The middleware admitted request r and its handler has not begun.
HandlerDue(r) == req[r].pc = "done" /\ req[r].handlerRan /\ acall.r < r

\* call_next(request) of an admitted request: the handler parses target_date
\* and builds the cache key.
get_daily_analytics(r, u, target_date) ==
    /\ HandlerDue(r)
    /\ ~HandlerRuns
    /\ LET given == target_date # <<>> /\ target_date[1] # ""
           parsed == IF given THEN FromIsoFormat(target_date[1]) ELSE <<Today>>
       IN acall' =
              IF parsed = <<>>
              THEN [IdleHandler EXCEPT !.pc = "done", !.kind = "daily",
                                       !.r = r, !.user_id = u, !.status = 400]
              ELSE [IdleHandler EXCEPT !.pc = "get", !.kind = "daily",
                                       !.r = r, !.user_id = u,
                                       !.parsed_date = parsed[1],
                                       !.cache_key = DailyKey(u, parsed[1])]
    /\ UNCHANGED <<userVars, now, rateVars, mealVars, cacheClient, cache, lastSet, writer, op>>

\* cached_result = await cache_manager.get_cached_data(cache_key); a truthy
\* result is validated and returned.
DailyCacheGet(r, ok) ==
    /\ acall.r = r
    /\ acall.pc = "get"
    /\ acall.kind = "daily"
    /\ LET got == GetCachedData(acall.cache_key, ok)
       IN acall' =
              IF got.raised
              THEN [acall EXCEPT !.pc = "done", !.status = 500,
                             !.getFailed = cacheClient /\ ~ok]
              ELSE IF PyTruthy(got.value)
              THEN [acall EXCEPT !.pc = "done", !.status = 200, !.hit = TRUE,
                             !.response = <<model_validate(got.value)>>]
              ELSE [acall EXCEPT !.pc = "compute",
                             !.getFailed = cacheClient /\ ~ok]
    /\ UNCHANGED <<userVars, now, rateVars, mealVars, cacheClient, cache, lastSet, writer, op>>

\* analytics_data = await analytics_service.get_daily_analytics(...).
DailyCompute(r) ==
    /\ acall.r = r
    /\ acall.pc = "compute"
    /\ acall.kind = "daily"
    /\ acall' =
           [acall EXCEPT !.pc = "set",
                     !.analytics_data =
                         <<DailyAnalyticsOf(acall.user_id,
                                            acall.parsed_date)>>]
    /\ UNCHANGED <<userVars, now, rateVars, mealVars, cacheClient, cache, lastSet, writer, op>>

\* await cache_manager.set_cached_data(cache_key, analytics_data.model_dump(),
\* expiry_seconds=300); return analytics_data. An exception becomes a 500.
DailyCacheSet(r, ok) ==
    /\ acall.r = r
    /\ acall.pc = "set"
    /\ acall.kind = "daily"
    /\ LET data == model_dump(acall.analytics_data[1])
           set == SetCachedData(acall.cache_key, data,
                                analytics_expiry_seconds, ok)
       IN /\ cache' = set.cache
          /\ acall' =
                 IF set.raised
                 THEN [acall EXCEPT !.pc = "done", !.status = 500,
                                !.setFailed = cacheClient /\ ~ok]
                 ELSE [acall EXCEPT !.pc = "done", !.status = 200,
                                !.response = acall.analytics_data,
                                !.setFailed = cacheClient /\ ~ok]
    /\ writer' = IF cacheClient /\ ok
                 THEN [writer EXCEPT ![acall.cache_key] = <<WriterOf(acall)>>]
                 ELSE writer
    /\ UNCHANGED <<userVars, now, rateVars, mealVars, cacheClient, lastSet, op>>

\* range(7) and timedelta(days=6): the days of a week of trends.
week_days == 7

\* range(3): the days that the recommendation looks back on.
under_goal_days == 3

\* .limit(5) of the suggested foods.
suggested_limit == 5

\* AnalyticsService.get_weekly_trends(user_id): the WeeklyTrend of each day
\* from today - 6 to today.
WeeklyTrendsOf(u) ==
    [i \in 1..week_days |->
        LET d == Today - (week_days - 1) + (i - 1)
        IN [date |-> IsoDate(d),
            total_calories |-> SumOf(MealsOfDay(u, d), "calories"),
            total_protein_g |-> SumOf(MealsOfDay(u, d), "protein_g"),
            total_carbs_g |-> SumOf(MealsOfDay(u, d), "carbs_g"),
            total_fat_g |-> SumOf(MealsOfDay(u, d), "fat_g")]]

\* WeeklyTrend.model_dump().
trend_dump(m) ==
    PyDict(<<PyStr("date"), PyStr(m.date),
             PyStr("total_calories"), PyInt(m.total_calories),
             PyStr("total_protein_g"), PyInt(m.total_protein_g),
             PyStr("total_carbs_g"), PyInt(m.total_carbs_g),
             PyStr("total_fat_g"), PyInt(m.total_fat_g)>>)

\* WeeklyTrend.model_validate(item).
trend_validate(v) ==
    [date |-> DictGet(v, "date").s,
     total_calories |-> DictGet(v, "total_calories").n,
     total_protein_g |-> DictGet(v, "total_protein_g").n,
     total_carbs_g |-> DictGet(v, "total_carbs_g").n,
     total_fat_g |-> DictGet(v, "total_fat_g").n]

\* [item.model_dump() for item in trends_data].
trends_dicts(trends) == PyList([i \in 1..Len(trends) |-> trend_dump(trends[i])])

\* [WeeklyTrend.model_validate(item) for item in cached_result].
trends_validate(v) ==
    [i \in 1..Len(v.items) |-> trend_validate(v.items[i])]

RECURSIVE OrderBy(_, _, _)

\* select(Food) ... .order_by(column.asc() or .desc()): the ids in order.
OrderBy(ids, field, asc) ==
    IF ids = {} THEN <<>>
    ELSE LET first ==
                 CHOOSE i \in ids :
                     \A j \in ids :
                         IF asc THEN foods[i][field] <= foods[j][field]
                         ELSE foods[i][field] >= foods[j][field]
         IN <<first>> \o OrderBy(ids \ {first}, field, asc)

\* .limit(n) of a result.
Limit(seq, n) == SubSeq(seq, 1, Min(n, Len(seq)))

\* The dict of a suggested food.
SuggestedFood(id) ==
    [id |-> id, name |-> foods[id].name,
     serving_size_g |-> foods[id].serving_size_g,
     calories |-> foods[id].calories,
     protein_g |-> foods[id].protein_g,
     carbs_g |-> foods[id].carbs_g,
     fat_g |-> foods[id].fat_g]

\* AnalyticsService.get_recommendation(user_id): the RecommendationResponse.
RecommendationOf(u) ==
    LET goal == UserTable[u].daily_calorie_goal
        daily_calorie_goal == IF goal = <<>> THEN 0 ELSE goal[1]
        yesterday_calories == SumOf(MealsOfDay(u, Today - 1), "calories")
        exceeded_yesterday == yesterday_calories > daily_calorie_goal
        under_goal_3_days ==
            \A i \in 0..(under_goal_days - 1) :
                SumOf(MealsOfDay(u, Today - i), "calories") < daily_calorie_goal
        lower == {f \in DOMAIN foods :
                      foods[f].calories < daily_calorie_goal}
        suggested_foods ==
            IF exceeded_yesterday
            THEN Limit(OrderBy(lower, "calories", TRUE), suggested_limit)
            ELSE IF under_goal_3_days
            THEN Limit(OrderBy(DOMAIN foods, "protein_g", FALSE),
                       suggested_limit)
            ELSE <<>>
    IN [rationale |->
            IF exceeded_yesterday THEN "You exceeded your calorie goal yesterday. Here are some lower-calorie options."
            ELSE IF under_goal_3_days THEN "You've been under your calorie goal for the last 3 days. Here are some protein-dense options to help you meet your target."
            ELSE "Your calorie intake is consistent. No specific recommendation at this time.",
        suggested_foods |->
            [i \in 1..Len(suggested_foods) |->
                SuggestedFood(suggested_foods[i])]]

\* The dict of a SuggestedFood.
food_dump(f) ==
    PyDict(<<PyStr("id"), PyInt(f.id),
             PyStr("name"), PyStr(f.name),
             PyStr("serving_size_g"), PyInt(f.serving_size_g),
             PyStr("calories"), PyInt(f.calories),
             PyStr("protein_g"), PyInt(f.protein_g),
             PyStr("carbs_g"), PyInt(f.carbs_g),
             PyStr("fat_g"), PyInt(f.fat_g)>>)

food_validate(v) ==
    [id |-> DictGet(v, "id").n, name |-> DictGet(v, "name").s,
     serving_size_g |-> DictGet(v, "serving_size_g").n,
     calories |-> DictGet(v, "calories").n,
     protein_g |-> DictGet(v, "protein_g").n,
     carbs_g |-> DictGet(v, "carbs_g").n,
     fat_g |-> DictGet(v, "fat_g").n]

\* RecommendationResponse.model_dump().
reco_dump(m) ==
    PyDict(<<PyStr("rationale"), PyStr(m.rationale),
             PyStr("suggested_foods"),
             PyList([i \in 1..Len(m.suggested_foods) |->
                        food_dump(m.suggested_foods[i])])>>)

\* RecommendationResponse.model_validate(cached_result).
reco_validate(v) ==
    [rationale |-> DictGet(v, "rationale").s,
     suggested_foods |->
         [i \in 1..Len(DictGet(v, "suggested_foods").items) |->
             food_validate(DictGet(v, "suggested_foods").items[i])]]

\* GET /analytics/weekly of user u, served for request r: the cache key.
get_weekly_trends(r, u) ==
    /\ HandlerDue(r)
    /\ ~HandlerRuns
    /\ acall' = [IdleHandler EXCEPT !.pc = "get", !.kind = "weekly", !.r = r,
                                    !.user_id = u, !.cache_key = WeeklyKey(u)]
    /\ UNCHANGED <<userVars, now, rateVars, mealVars, cacheClient, cache, lastSet, writer, op>>

\* cached_result = await cache_manager.get_cached_data(cache_key) of the
\* weekly handler; a truthy result is validated item by item and returned.
WeeklyCacheGet(r, ok) ==
    /\ acall.r = r
    /\ acall.pc = "get"
    /\ acall.kind = "weekly"
    /\ LET got == GetCachedData(acall.cache_key, ok)
       IN acall' =
              IF got.raised
              THEN [acall EXCEPT !.pc = "done", !.status = 500,
                             !.getFailed = cacheClient /\ ~ok]
              ELSE IF PyTruthy(got.value)
              THEN [acall EXCEPT !.pc = "done", !.status = 200, !.hit = TRUE,
                             !.response = <<trends_validate(got.value)>>]
              ELSE [acall EXCEPT !.pc = "compute",
                             !.getFailed = cacheClient /\ ~ok]
    /\ UNCHANGED <<userVars, now, rateVars, mealVars, cacheClient, cache, lastSet, writer, op>>

\* trends_data = await analytics_service.get_weekly_trends(current_user.id).
WeeklyCompute(r) ==
    /\ acall.r = r
    /\ acall.pc = "compute"
    /\ acall.kind = "weekly"
    /\ acall' = [acall EXCEPT !.pc = "set",
                          !.analytics_data = <<WeeklyTrendsOf(acall.user_id)>>]
    /\ UNCHANGED <<userVars, now, rateVars, mealVars, cacheClient, cache, lastSet, writer, op>>

\* await cache_manager.set_cached_data(cache_key, trends_dicts,
\* expiry_seconds=300); return trends_data.
WeeklyCacheSet(r, ok) ==
    /\ acall.r = r
    /\ acall.pc = "set"
    /\ acall.kind = "weekly"
    /\ LET set == SetCachedData(acall.cache_key,
                                trends_dicts(acall.analytics_data[1]),
                                analytics_expiry_seconds, ok)
       IN /\ cache' = set.cache
          /\ acall' =
                 IF set.raised
                 THEN [acall EXCEPT !.pc = "done", !.status = 500,
                                !.setFailed = cacheClient /\ ~ok]
                 ELSE [acall EXCEPT !.pc = "done", !.status = 200,
                                !.response = acall.analytics_data,
                                !.setFailed = cacheClient /\ ~ok]
    /\ writer' = IF cacheClient /\ ok
                 THEN [writer EXCEPT ![acall.cache_key] = <<WriterOf(acall)>>]
                 ELSE writer
    /\ UNCHANGED <<userVars, now, rateVars, mealVars, cacheClient, lastSet, op>>

\* GET /analytics/reco of user u, served for request r: the cache key.
get_recommendation(r, u) ==
    /\ HandlerDue(r)
    /\ ~HandlerRuns
    /\ acall' = [IdleHandler EXCEPT !.pc = "get", !.kind = "reco", !.r = r,
                                    !.user_id = u, !.cache_key = RecoKey(u)]
    /\ UNCHANGED <<userVars, now, rateVars, mealVars, cacheClient, cache, lastSet, writer, op>>

\* cached_result = await cache_manager.get_cached_data(cache_key) of the
\* recommendation handler; a truthy result is validated and returned.
RecoCacheGet(r, ok) ==
    /\ acall.r = r
    /\ acall.pc = "get"
    /\ acall.kind = "reco"
    /\ LET got == GetCachedData(acall.cache_key, ok)
       IN acall' =
              IF got.raised
              THEN [acall EXCEPT !.pc = "done", !.status = 500,
                             !.getFailed = cacheClient /\ ~ok]
              ELSE IF PyTruthy(got.value)
              THEN [acall EXCEPT !.pc = "done", !.status = 200, !.hit = TRUE,
                             !.response = <<reco_validate(got.value)>>]
              ELSE [acall EXCEPT !.pc = "compute",
                             !.getFailed = cacheClient /\ ~ok]
    /\ UNCHANGED <<userVars, now, rateVars, mealVars, cacheClient, cache, lastSet, writer, op>>

\* reco_data = await analytics_service.get_recommendation(current_user.id).
RecoCompute(r) ==
    /\ acall.r = r
    /\ acall.pc = "compute"
    /\ acall.kind = "reco"
    /\ acall' = [acall EXCEPT !.pc = "set",
                          !.analytics_data = <<RecommendationOf(acall.user_id)>>]
    /\ UNCHANGED <<userVars, now, rateVars, mealVars, cacheClient, cache, lastSet, writer, op>>

\* await cache_manager.set_cached_data(cache_key, reco_dict,
\* expiry_seconds=300); return reco_data.
RecoCacheSet(r, ok) ==
    /\ acall.r = r
    /\ acall.pc = "set"
    /\ acall.kind = "reco"
    /\ LET set == SetCachedData(acall.cache_key,
                                reco_dump(acall.analytics_data[1]),
                                analytics_expiry_seconds, ok)
       IN /\ cache' = set.cache
          /\ acall' =
                 IF set.raised
                 THEN [acall EXCEPT !.pc = "done", !.status = 500,
                                !.setFailed = cacheClient /\ ~ok]
                 ELSE [acall EXCEPT !.pc = "done", !.status = 200,
                                !.response = acall.analytics_data,
                                !.setFailed = cacheClient /\ ~ok]
    /\ writer' = IF cacheClient /\ ok
                 THEN [writer EXCEPT ![acall.cache_key] = <<WriterOf(acall)>>]
                 ELSE writer
    /\ UNCHANGED <<userVars, now, rateVars, mealVars, cacheClient, lastSet, op>>

CacheInit ==
    /\ cacheClient = FALSE
    /\ cache = [k \in RedisKeys |-> NoEntry]
    /\ lastSet = [k \in CacheKeys |-> NoSet]
    /\ writer = [k \in AnalyticsKeys |-> <<>>]
    /\ op = NoOp
    /\ acall = IdleHandler

----------------------------------------------------------------------------
(* POST /auth/register: UserService.register_user and the exception        *)
(* handlers of the application.                                            *)

MaxRegistrations == 3

Registrations == 1..MaxRegistrations

\* The emails that clients register.
Emails == {"a@example.com", "b@example.com"}

\* The UserCreate bodies that clients send: name, email, password and the
\* optional daily_calorie_goal (<<>> is None).
UserInputs ==
    {[name |-> "Ann", email |-> e, password |-> pw, daily_calorie_goal |-> goal] :
        e \in Emails, pw \in {"securepassword123", "otherpassword456"},
        goal \in {<<2200>>}}

\* The salts that bcrypt draws.
Salts == {1, 2}

\* pwd_context.hash(password) with the salt drawn: the bcrypt hash, which
\* holds the salt and the digest of salt and password.
get_password_hash(password, salt) ==
    [scheme |-> "bcrypt", salt |-> salt, digest |-> <<salt, password>>]

\* pwd_context.verify(plain_password, hashed_password): the digest of the
\* hash's salt and the plain password is the hash's digest.
verify_password(plain_password, hashed_password) ==
    hashed_password.digest = <<hashed_password.salt, plain_password>>

\* The text of a detail or message, as its words.
EmailAlreadyRegistered == <<"Email", "already", "registered">>

RegistrationFailed == <<"An", "error", "occurred", "during", "registration.">>

UserRegistered == <<"User", "registered", "successfully">>

\* select(User).where(User.email == email)
UsersWithEmail(email) == {u \in users : u.email = email}

\* `if existing_user.scalar():` as it would be if the check never fired.
EmailTaken_Never(found) == FALSE

\* `if existing_user.scalar():` on the rows of the select.
EmailTaken(found) == found # {}

\* The request before it arrives. existing is history: the users with the
\* email when the request arrived; inserted is history: TRUE once the request
\* has inserted a row.
IdleRegistration ==
    [pc |-> "idle", name |-> "", email |-> "", password |-> "",
     daily_calorie_goal |-> <<>>, existing |-> {}, inserted |-> FALSE,
     status |-> 0, body |-> <<>>]

RegistrationInFlight(g) == rcall[g].pc \notin {"idle", "done"}

\* POST /auth/register arrives with a UserCreate. Requests arrive in the
\* order of their numbers, at most MaxInFlight at a time.
register_user(g, in) ==
    /\ rcall[g].pc = "idle"
    /\ \A h \in Registrations : h < g => rcall[h].pc # "idle"
    /\ Cardinality({h \in Registrations : RegistrationInFlight(h)}) < MaxInFlight
    /\ rcall' = [rcall EXCEPT ![g] =
           [@ EXCEPT !.pc = "check", !.name = in.name, !.email = in.email,
                     !.password = in.password,
                     !.daily_calorie_goal = in.daily_calorie_goal,
                     !.existing = UsersWithEmail(in.email)]]
    /\ UNCHANGED <<users, nextUserId, now, rateVars, mealVars, cacheVars>>

\* existing_user = await execute(select ...); a row raises
\* HTTPException(409, "Email already registered"), which the route raises
\* again and http_exception_handler answers.
CheckExisting(g) ==
    /\ rcall[g].pc = "check"
    /\ rcall' = [rcall EXCEPT ![g] =
           IF EmailTaken(UsersWithEmail(rcall[g].email))
           THEN LET resp == http_exception_handler(409, EmailAlreadyRegistered)
                IN [@ EXCEPT !.pc = "done", !.status = resp.status,
                             !.body = resp.body]
           ELSE [@ EXCEPT !.pc = "insert"]]
    /\ UNCHANGED <<users, nextUserId, now, rateVars, mealVars, cacheVars>>

\* db_user = User(...); db_user.set_password(...) with the salt drawn;
\* db_session.add(db_user); await commit(); refresh; the route answers 201.
\* The unique index on users.email refuses a second row with the email: the
\* IntegrityError is caught by `except Exception` of the route, which raises
\* HTTPException(500).
CommitUser(g, salt) ==
    /\ rcall[g].pc = "insert"
    /\ IF UsersWithEmail(rcall[g].email) # {}
       THEN /\ rcall' = [rcall EXCEPT ![g] =
                  LET resp == http_exception_handler(500, RegistrationFailed)
                  IN [@ EXCEPT !.pc = "done", !.status = resp.status,
                               !.body = resp.body]]
            /\ UNCHANGED <<users, nextUserId>>
       ELSE /\ users' = users \cup
                  {[id |-> nextUserId, name |-> rcall[g].name,
                    email |-> rcall[g].email,
                    password_hash |->
                        get_password_hash(rcall[g].password, salt),
                    daily_calorie_goal |-> rcall[g].daily_calorie_goal,
                    role |-> "user"]}
            /\ nextUserId' = nextUserId + 1
            /\ rcall' = [rcall EXCEPT ![g] =
                  [@ EXCEPT !.pc = "done", !.status = 201, !.inserted = TRUE,
                            !.body = [message |-> UserRegistered]]]
    /\ UNCHANGED <<now, rateVars, mealVars, cacheVars>>

UserInit ==
    /\ users = {}
    /\ nextUserId = 1
    /\ rcall = [g \in Registrations |-> IdleRegistration]

UserNext ==
    \/ \E g \in Registrations, in \in UserInputs : register_user(g, in)
    \/ \E g \in Registrations : CheckExisting(g)
    \/ \E g \in Registrations, salt \in Salts : CommitUser(g, salt)

----------------------------------------------------------------------------
(* Specification of the rate limiter.                                      *)

RateInit ==
    /\ now = 0
    /\ limiterClient = FALSE
    /\ zset = {}
    /\ zttl = NoExpiry
    /\ req = [r \in Requests |-> IdleRequest]
    /\ overlapped = FALSE

RateNext ==
    \/ \E r \in Requests : Dispatch(r)
    \/ \E r \in Requests : Zcard(r)
    \/ \E r \in Requests : ZrangeAndReject(r)
    \/ \E r \in Requests : ExecuteAndAdmit(r)
    \/ \E r \in Requests : RedisCommandRaises(r)
    \/ init_limiter
    \/ RateKeyExpires
    \/ Tick

Init == RateInit /\ MealInit /\ CacheInit /\ UserInit

RateSpec == Init /\ [][RateNext]_vars

MealSpec == Init /\ [][MealNext]_vars

UserSpec == Init /\ [][UserNext]_vars

\* Meal creation over a relational store that may fail, with clients that
\* retry.
MealFailNext ==
    \/ \E c \in Calls, in \in MealInputs : CreateMealRequest(c, in)
    \/ \E c \in Calls : LookupExisting(c)
    \/ \E c \in Calls : GetFood(c)
    \/ \E c \in Calls : CommitMeal(c)
    \/ \E c \in Calls : StoreRaises(c)
    \/ \E c \in Calls : CommitRaises(c)
    \/ \E c \in Calls : RefreshRaises(c)
    \/ \E c, d \in Calls : ClientRetries(d, c)

MealFailSpec == Init /\ [][MealFailNext]_vars

\* POST /meals while the store fails: one user sends the same keyed meal and
\* a meal of a food that does not exist, and any statement may raise.
FailingMeals == {MealInput(7, 3, 1, "abc", <<>>), MealInput(7, 4, 1, None, <<>>)}

ErrorNext ==
    \/ \E c \in Calls, in \in FailingMeals : CreateMealRequest(c, in)
    \/ \E c \in Calls, in \in FailingMeals : DependencyRaises(c, in)
    \/ \E c \in Calls : LookupExisting(c)
    \/ \E c \in Calls : GetFood(c)
    \/ \E c \in Calls : CommitMeal(c)
    \/ \E c \in Calls : StoreRaises(c)
    \/ \E c \in Calls : CommitRaises(c)
    \/ \E c \in Calls : RefreshRaises(c)

ErrorSpec == Init /\ [][ErrorNext]_vars

CacheNext ==
    \/ connect
    \/ \E k \in CacheKeys, ok \in BOOLEAN : get_cached_data(k, ok)
    \/ \E k \in CacheKeys, v \in CacheValues, ttl \in TtlValues, ok \in BOOLEAN :
          set_cached_data(k, v, ttl, ok)
    \/ \E k \in CacheKeys, ok \in BOOLEAN : delete_cached_data(k, ok)
    \/ \E k \in CacheKeys : CacheEntryExpires(k)
    \/ Tick

CacheSpec == Init /\ [][CacheNext]_vars

\* A request arrives when no other request is being served.
ArriveAlone(r) ==
    /\ \A q \in Requests : ~InFlight(q) /\ ~HandlerDue(q)
    /\ ~HandlerRuns
    /\ Dispatch(r)

\* The requests are GET /analytics/daily, served one after the other: the
\* middleware, then the handler.
AnalyticsNext ==
    \/ \E r \in Requests : ArriveAlone(r)
    \/ \E r \in Requests : Zcard(r)
    \/ \E r \in Requests : ZrangeAndReject(r)
    \/ \E r \in Requests : ExecuteAndAdmit(r)
    \/ \E r \in Requests : RedisCommandRaises(r)
    \/ \E r \in Requests, u \in DOMAIN UserTable, d \in TargetDates :
          get_daily_analytics(r, u, d)
    \/ \E r \in Requests, ok \in BOOLEAN : DailyCacheGet(r, ok)
    \/ \E r \in Requests : DailyCompute(r)
    \/ \E r \in Requests, ok \in BOOLEAN : DailyCacheSet(r, ok)
    \/ \E k \in DailyKeys : CacheEntryExpires(k)
    \/ init_limiter
    \/ connect
    \/ RateKeyExpires
    \/ Tick

AnalyticsSpec == Init /\ [][AnalyticsNext]_vars

\* The meals that the clients of the analytics log: no Idempotency-Key.
LoggedMeals == {MealInput(7, 3, 1, None, <<>>)}

\* The user who logs them and asks for the analytics, and the target_date
\* of the daily requests: absent or the first day.
Eaters == {7}

EatersDates == {<<>>, <<IsoDate(0)>>}

\* No meal request is being served.
MealsQuiet == MutationIdle /\ \A c \in Calls : ~CallInFlight(c)

\* No analytics request is being served.
AnalyticsQuiet ==
    /\ ~HandlerRuns
    /\ \A q \in Requests : ~InFlight(q) /\ ~HandlerDue(q)

\* The analytics requests and the meals logged while the cache is observed.
MaxReads == 2

MaxLoggedMeals == 1

\* An analytics request arrives when nothing else is being served.
AnalyticsArrives(r) == r <= MaxReads /\ MealsQuiet /\ ArriveAlone(r)

\* POST /meals/ arrives when nothing else is being served.
CreateArrives(c, in) ==
    c <= MaxLoggedMeals /\ MealsQuiet /\ AnalyticsQuiet /\ CreateMealRequest(c, in)

\* PATCH /meals/{meal_id} arrives when nothing else is being served.
UpdateArrives(u, id, upd) ==
    MealsQuiet /\ AnalyticsQuiet /\ update_meal_log(u, id, upd)

\* DELETE /meals/{meal_id} arrives when nothing else is being served.
DeleteArrives(u, id) ==
    MealsQuiet /\ AnalyticsQuiet /\ delete_meal_log(u, id)

\* The clock advances between two requests.
TickBetweenRequests == AnalyticsQuiet /\ Tick

\* The three analytics routes read through the cache while meals are
\* created, updated and deleted; the requests are served one after the
\* other, the rate limiter is not initialised, and the store may fail to
\* answer a read.
ReadThroughNext ==
    \/ \E r \in Requests : AnalyticsArrives(r)
    \/ \E r \in Requests, u \in Eaters, d \in EatersDates :
          get_daily_analytics(r, u, d)
    \/ \E r \in Requests, ok \in BOOLEAN : DailyCacheGet(r, ok)
    \/ \E r \in Requests : DailyCompute(r)
    \/ \E r \in Requests : DailyCacheSet(r, TRUE)
    \/ \E r \in Requests, u \in Eaters : get_weekly_trends(r, u)
    \/ \E r \in Requests, ok \in BOOLEAN : WeeklyCacheGet(r, ok)
    \/ \E r \in Requests : WeeklyCompute(r)
    \/ \E r \in Requests : WeeklyCacheSet(r, TRUE)
    \/ \E r \in Requests, u \in Eaters : get_recommendation(r, u)
    \/ \E r \in Requests, ok \in BOOLEAN : RecoCacheGet(r, ok)
    \/ \E r \in Requests : RecoCompute(r)
    \/ \E r \in Requests : RecoCacheSet(r, TRUE)
    \/ \E c \in Calls, in \in LoggedMeals : CreateArrives(c, in)
    \/ \E c \in Calls : GetFood(c)
    \/ \E c \in Calls : CommitMeal(c)
    \/ \E u \in Eaters, id \in 1..MaxLoggedMeals, upd \in MealUpdates :
          UpdateArrives(u, id, upd)
    \/ \E u \in Eaters, id \in 1..MaxLoggedMeals : DeleteArrives(u, id)
    \/ get_meal_by_id
    \/ CommitUpdate
    \/ CommitDelete
    \/ \E k \in AnalyticsKeys : CacheEntryExpires(k)
    \/ connect
    \/ TickBetweenRequests

ReadThroughSpec == Init /\ [][ReadThroughNext]_vars

\* The three analytics routes, asked by every user for every date and
\* served one request after the other; the rate limiter is not initialised.
RoutesNext ==
    \/ \E r \in Requests : ArriveAlone(r)
    \/ \E r \in Requests, u \in DOMAIN UserTable, d \in TargetDates :
          get_daily_analytics(r, u, d)
    \/ \E r \in Requests, ok \in BOOLEAN : DailyCacheGet(r, ok)
    \/ \E r \in Requests : DailyCompute(r)
    \/ \E r \in Requests : DailyCacheSet(r, TRUE)
    \/ \E r \in Requests, u \in DOMAIN UserTable : get_weekly_trends(r, u)
    \/ \E r \in Requests, ok \in BOOLEAN : WeeklyCacheGet(r, ok)
    \/ \E r \in Requests : WeeklyCompute(r)
    \/ \E r \in Requests : WeeklyCacheSet(r, TRUE)
    \/ \E r \in Requests, u \in DOMAIN UserTable : get_recommendation(r, u)
    \/ \E r \in Requests, ok \in BOOLEAN : RecoCacheGet(r, ok)
    \/ \E r \in Requests : RecoCompute(r)
    \/ \E r \in Requests : RecoCacheSet(r, TRUE)
    \/ \E k \in AnalyticsKeys : CacheEntryExpires(k)
    \/ connect
    \/ Tick

RoutesSpec == Init /\ [][RoutesNext]_vars

\* The meals that two users log without a key.
EditedMeals == {MealInput(7, 3, 1, None, <<>>), MealInput(8, 3, 2, None, <<>>)}

\* The ids of the two meals that are logged, then read and edited.
EditedIds == {1, 2}

\* POST /meals/ arrives when no other meal request is being served.
EditedMealArrives(c, in) ==
    c \in EditedIds /\ MealsQuiet /\ CreateMealRequest(c, in)

\* GET /meals/{meal_id} arrives when no other meal request is being served.
GetArrives(u, id) == MealsQuiet /\ get_meal(u, id)

\* GET /meals/ arrives when no other meal request is being served.
ListArrives(u, params) == MealsQuiet /\ list_meals(u, params)

\* An administrator changes a food when no meal request is being served.
FoodChanges(id, upd) ==
    /\ MealsQuiet
    /\ foods[id].calories = FoodTable[id].calories
    /\ update_food(id, upd)

\* Two users log meals, and read, update and delete meals by id, while an
\* administrator corrects the food; the requests are served one after the
\* other.
MealEditNext ==
    \/ \E c \in Calls, in \in EditedMeals : EditedMealArrives(c, in)
    \/ \E c \in Calls : GetFood(c)
    \/ \E c \in Calls : CommitMeal(c)
    \/ \E u \in DOMAIN UserTable, id \in EditedIds, upd \in MealUpdates :
          UpdateArrives(u, id, upd)
    \/ \E u \in DOMAIN UserTable, id \in EditedIds : DeleteArrives(u, id)
    \/ \E u \in DOMAIN UserTable, id \in EditedIds : GetArrives(u, id)
    \/ \E u \in DOMAIN UserTable, params \in ListParams : ListArrives(u, params)
    \/ get_meal_by_id
    \/ CommitUpdate
    \/ CommitDelete
    \/ \E id \in DOMAIN FoodTable, upd \in FoodUpdates : FoodChanges(id, upd)

MealEditSpec == Init /\ [][MealEditNext]_vars

\* The createMeal requests of one user that carry the same Idempotency-Key.
KeyedMeals == {MealInput(7, 3, 1, "abc", <<>>), MealInput(7, 3, 2, "abc", <<>>)}

\* One user creates meals under one key, and updates and deletes them.
KeyLifeNext ==
    \/ \E c \in Calls, in \in KeyedMeals : CreateMealRequest(c, in)
    \/ \E c \in Calls : LookupExisting(c)
    \/ \E c \in Calls : GetFood(c)
    \/ \E c \in Calls : CommitMeal(c)
    \/ \E id \in MealIds, upd \in MealUpdates : update_meal_log(7, id, upd)
    \/ \E id \in MealIds : delete_meal_log(7, id)
    \/ get_meal_by_id
    \/ CommitUpdate
    \/ CommitDelete

KeyLifeSpec == Init /\ [][KeyLifeNext]_vars

----------------------------------------------------------------------------
(* Properties of the rate limiter.                                         *)

DoneRequests == {r \in Requests : req[r].pc = "done"}

AdmittedRequests == {r \in DoneRequests : req[r].outcome = "admitted"}

\* No request is being served, none overlapped another, and every request so
\* far was decided by the store (none failed open, none raised).
SequentialHistory ==
    /\ ~overlapped
    /\ \A r \in Requests : ~InFlight(r)
    /\ \A r \in DoneRequests : req[r].outcome \in {"admitted", "rejected"}

\* All calls so far were made less than one window apart.
WithinOneWindow ==
    \A r, q \in DoneRequests :
        req[r].current_time - req[q].current_time < rate_limit_window

\* Request r takes its ZCARD step, alone and after a sequential history.
CountsAlone(r) ==
    /\ req[r].pc = "begun"
    /\ req'[r].pc \in {"counted", "rejecting"}
    /\ ~overlapped
    /\ \A q \in Requests \ {r} : ~InFlight(q)
    /\ \A q \in DoneRequests : req[q].outcome \in {"admitted", "rejected"}

\* C1: of N sequential is_allowed calls of one identifier that all fall within
\* one window, exactly min(N, limit) are admitted, and the k-th admitted call
\* reports remaining = limit - k.
C1_AdmitsMinOfNAndLimit ==
    (SequentialHistory /\ WithinOneWindow) =>
        /\ Cardinality(AdmittedRequests)
             = Min(Cardinality(DoneRequests), rate_limit_requests)
        /\ \A r \in AdmittedRequests :
             req[r].remaining = rate_limit_requests
                 - Cardinality({q \in AdmittedRequests : q <= r})

\* C2: under every interleaving, the calls admitted within any one window
\* are at most limit. Stated for calls made in pairwise different seconds:
\* the seconds of the admitted calls that lie in one window are at most limit.
C2_AtMostLimitPerWindow ==
    \A r \in AdmittedRequests :
        Cardinality({req[q].current_time : q \in
            {q \in AdmittedRequests :
                /\ req[r].current_time <= req[q].current_time
                /\ req[q].current_time < req[r].current_time + rate_limit_window}})
          <= rate_limit_requests

\* C5: a call that finds limit recorded timestamps, some of them older than
\* now - window, is admitted: the timestamps outside the window do not count.
C5_StaleEntriesDoNotCount ==
    [][\A r \in Requests :
          (/\ CountsAlone(r)
           /\ ZCard(zset) = rate_limit_requests
           /\ \E e \in zset : e.score < req[r].current_time - rate_limit_window)
          => req'[r].pc = "counted"]_vars

\* C6: the window slides. A call made when fewer than limit of the earlier
\* admitted calls are younger than window seconds is admitted, whatever
\* was rejected in between.
C6_WindowSlides ==
    [][\A r \in Requests :
          (/\ CountsAlone(r)
           /\ Cardinality({q \in AdmittedRequests :
                   req[q].current_time > req[r].current_time - rate_limit_window})
                < rate_limit_requests)
          => req'[r].pc = "counted"]_vars

\* The scores of the set that are still inside the window of a call made at t.
InWindow(s, t) == {e.score : e \in {e \in s : e.score > t - rate_limit_window}}

\* C7: a rejected call returns allowed = false, remaining = limit - count and
\* resetTime = (oldest timestamp still inside the window) + window.
C7_RejectionResult ==
    [][\A r \in Requests :
          (/\ req[r].pc = "rejecting"
           /\ req'[r].outcome = "rejected"
           /\ InWindow(zset, req[r].current_time) # {})
          => /\ ~req'[r].allowed
             /\ req'[r].remaining = rate_limit_requests - req[r].current_count
             /\ \A t \in InWindow(zset, req[r].current_time) :
                    req'[r].reset_time <= t + rate_limit_window
             /\ \E t \in InWindow(zset, req[r].current_time) :
                    req'[r].reset_time = t + rate_limit_window]_vars

\* C8: when the store is unavailable (no client, or a command fails), the
\* call fails open: the request is admitted, its handler runs, no 500.
C8_FailsOpen ==
    \A r \in DoneRequests :
        req[r].outcome \in {"failopen", "error"} =>
            /\ req[r].handlerRan
            /\ req[r].status # 500

----------------------------------------------------------------------------
(* Properties of meal creation.                                            *)

DoneCalls == {c \in Calls : call[c].pc = "done"}

\* A finished call that carried an idempotency key and an existing food.
KeyedValidCall(c) ==
    /\ c \in DoneCalls
    /\ Truthy(call[c].key)
    /\ call[c].food_id \in DOMAIN foods

\* C3: two createMeal calls with the same (user, key) and a valid food, under
\* every interleaving, leave exactly one Meal row with that (user, key), and
\* both calls return the same Meal.
C3_OneRowPerUserAndKey ==
    \A c, d \in Calls :
        (/\ c # d
         /\ KeyedValidCall(c) /\ KeyedValidCall(d)
         /\ call[c].user_id = call[d].user_id
         /\ call[c].key = call[d].key)
        => /\ Cardinality(MealsWithKey(call[c].user_id, call[c].key)) = 1
           /\ call[c].status = 201 /\ call[d].status = 201
           /\ call[c].result = call[d].result

\* C4: a createMeal call with a non-null idempotency key for which the user
\* already has a Meal returns that Meal as stored, whatever input it carries,
\* and inserts nothing.
C4_ReplayReturnsExisting ==
    \A c \in DoneCalls :
        (call[c].key # None /\ call[c].seen # {})
        => /\ call[c].status = 201
           /\ call[c].result \in call[c].seen
           /\ call[c].result \in meals
           /\ ~call[c].inserted

----------------------------------------------------------------------------
(* Properties of the cache manager.                                        *)

\* Redis executed a SETEX for key k, no delete since, and its time to live
\* has not run out.
SetAndLive(k) == lastSet[k] # NoSet /\ now < lastSet[k].expireAt

\* C10: after a successful set(k, v, ttl), a get(k) before the expiry returns
\* a value equal to v, and that result differs from the result of a miss
\* (None), whatever JSON value v is: null, 0, false, [] and {} included.
C10_GetReturnsWhatWasSet ==
    [][\A k \in CacheKeys :
          (get_cached_data(k, TRUE) /\ cacheClient /\ SetAndLive(k))
              => (op'.value = lastSet[k].value /\ op'.value # PyNone)]_vars

\* The part of C10 that the code keeps: the value that get returns is the
\* value that was set.
GetDeepEqualsSet ==
    [][\A k \in CacheKeys :
          (get_cached_data(k, TRUE) /\ cacheClient /\ SetAndLive(k))
              => op'.value = lastSet[k].value]_vars

\* json.loads(json.dumps(v)) is v for the values callers cache.
JsonRoundTrip == \A v \in CacheValues : json_loads(json_dumps(v)) = v

----------------------------------------------------------------------------
(* Properties of GET /analytics/daily.                                     *)

\* Request r is answered: by the middleware alone, or by its handler.
Responded(r) ==
    /\ req[r].pc = "done"
    /\ req[r].handlerRan => (acall.r = r /\ acall.pc = "done")

\* The status of the response to request r.
ResponseStatus(r) == IF req[r].handlerRan THEN acall.status ELSE req[r].status

\* A Redis command failed while request r was served.
StoreFailedDuring(r) ==
    \/ req[r].outcome = "error"
    \/ req[r].handlerRan /\ acall.r = r /\ (acall.getFailed \/ acall.setFailed)

\* C9: a store error during a cache get, set or delete is swallowed, so an
\* analytics request served while the store is down is answered with the
\* freshly computed result (status 200), never with an error.
C9_StoreDownStillAnswers ==
    \A r \in Requests :
        (Responded(r) /\ StoreFailedDuring(r))
            => /\ ResponseStatus(r) = 200
               /\ req[r].handlerRan
               /\ acall.response =
                      <<DailyAnalyticsOf(acall.user_id, acall.parsed_date)>>

\* The part of C9 that the code keeps: the cache manager raises nothing, and a
\* handler whose cache commands failed answers what it computed.
CacheErrorsSwallowed ==
    /\ ~op.raised
    /\ (acall.pc = "done" /\ (acall.getFailed \/ acall.setFailed))
           => /\ acall.status = 200
              /\ ~acall.hit
              /\ acall.response =
                     <<DailyAnalyticsOf(acall.user_id, acall.parsed_date)>>

----------------------------------------------------------------------------
(* Further properties of meal creation.                                    *)

\* A finished call whose food_id references no Food.
MissingFoodCall(c) ==
    c \in DoneCalls /\ call[c].food_id \notin DOMAIN foods

\* C11 as stated: a createMeal whose food_id references no Food fails with
\* 404 and inserts nothing, whether or not an idempotency key is supplied.
C11_MissingFoodIs404 ==
    \A c \in Calls :
        MissingFoodCall(c) => (call[c].status = 404 /\ ~call[c].inserted)

\* C11 amended: a createMeal whose food_id references no Food never inserts a
\* row; it fails with 404 unless the user already has a Meal with the supplied
\* key, in which case the lookup answers first (the stored Meal with 201, or
\* 500 when several rows match).
C11_MissingFoodNeverInserts ==
    \A c \in Calls :
        MissingFoodCall(c)
        => /\ ~call[c].inserted
           /\ \/ call[c].status = 404
              \/ /\ Truthy(call[c].key)
                 /\ MealsWithKey(call[c].user_id, call[c].key) # {}
                 /\ \/ /\ call[c].status = 201
                       /\ call[c].result \in
                              MealsWithKey(call[c].user_id, call[c].key)
                    \/ /\ call[c].status = 500
                       /\ Cardinality(MealsWithKey(call[c].user_id,
                                                   call[c].key)) > 1
           /\ (~Truthy(call[c].key) => call[c].status = 404)

\* A keyed call and a keyless call with a missing food were both answered 404
\* while the table holds rows.
C11_Witness ==
    /\ meals # {}
    /\ \E c, d \in Calls :
          /\ MissingFoodCall(c) /\ Truthy(call[c].key) /\ call[c].status = 404
          /\ MissingFoodCall(d) /\ call[d].key = None /\ call[d].status = 404

\* 1 for a call that inserted a row, 0 otherwise.
RowsInsertedBy(c) == IF call[c].inserted THEN 1 ELSE 0

\* C12: when the relational store fails during the lookup or the insert of a
\* createMeal, the call is answered with a 5xx and reports no Meal, and the
\* failed call and the client's retry together leave no duplicate row for
\* the (user, key).
C12_GuardDoesNotFailOpen ==
    \A c \in DoneCalls :
        call[c].failed
        => /\ call[c].status >= 500
           /\ call[c].result = None
           /\ \A d \in DoneCalls :
                 (call[d].retryOf = c /\ call[c].key # None)
                     => RowsInsertedBy(c) + RowsInsertedBy(d) <= 1

\* The part of C12 that the code keeps: the same, for the keys that start the
\* idempotency lookup.
GuardedRetryInsertsOnce ==
    \A c \in DoneCalls :
        call[c].failed
        => /\ call[c].status >= 500
           /\ call[c].result = None
           /\ \A d \in DoneCalls :
                 (call[d].retryOf = c /\ Truthy(call[c].key))
                     => RowsInsertedBy(c) + RowsInsertedBy(d) <= 1

----------------------------------------------------------------------------
(* Properties of rate_limit_middleware.                                    *)

\* The X-RateLimit-Remaining and X-RateLimit-Reset headers of the response to
\* request r are there and hold the values is_allowed returned.
CarriesRateLimitHeaders(r) ==
    req[r].headers =
        <<[remaining |-> req[r].remaining, reset |-> req[r].reset_time]>>

\* C13: every response, of an admitted request or of one rejected with 429,
\* carries the X-RateLimit-Remaining and X-RateLimit-Reset headers with the
\* remaining and resetTime that is_allowed returned for the request.
C13_EveryResponseHasHeaders ==
    \A r \in Requests :
        (req[r].pc = "done" /\ req[r].outcome \in {"failopen", "admitted", "rejected"})
            => CarriesRateLimitHeaders(r)

\* C14: the rate limiter decides before the handler runs: a request that
\* is_allowed denies is answered 429 with error code RATE_LIMIT_EXCEEDED and
\* its handler is never invoked, and a handler only ever runs for a request
\* the limiter let through.
C14_DeniedNeverReachesHandler ==
    /\ \A r \in Requests :
          (req[r].pc = "done" /\ req[r].outcome = "rejected")
              => /\ ~req[r].allowed
                 /\ req[r].status = 429
                 /\ req[r].error_code = "RATE_LIMIT_EXCEEDED"
                 /\ ~req[r].handlerRan
                 /\ acall.r # r
    /\ \A r \in Requests :
          req[r].handlerRan => (req[r].pc = "done" /\ req[r].allowed)
    /\ acall.r # 0 => req[acall.r].handlerRan

\* A request was rejected while an earlier one was admitted.
C14_Witness ==
    \E r, q \in Requests :
        /\ req[r].pc = "done" /\ req[r].outcome = "rejected"
        /\ req[r].status = 429
        /\ req[q].pc = "done" /\ req[q].outcome = "admitted"
        /\ req[q].handlerRan

----------------------------------------------------------------------------
(* Properties of the analytics cache while meals change.                   *)

\* What a handler of this kind returns for a cached value.
ValidateAs(kind, v) ==
    CASE kind = "daily" -> model_validate(v)
      [] kind = "weekly" -> trends_validate(v)
      [] kind = "reco" -> reco_validate(v)

\* What the analytics service computes for the request of handler h from the
\* meals and the clock as they are.
FreshOf(h) ==
    CASE h.kind = "daily" -> DailyAnalyticsOf(h.user_id, h.parsed_date)
      [] h.kind = "weekly" -> WeeklyTrendsOf(h.user_id)
      [] h.kind = "reco" -> RecommendationOf(h.user_id)

\* A step of a meal request: POST, PATCH or DELETE /meals.
MealStep == call' # call \/ mcall' # mcall \/ meals' # meals

\* The handler reads the cache in this step and the store answers.
CacheIsRead == acall.pc = "get" /\ acall'.pc # "get" /\ ~acall'.getFailed

\* C15: creating, updating or deleting a meal never deletes or rewrites a
\* cache entry. A daily, weekly or recommendation request that reads its key
\* while the entry is still there (before its time to live ends) returns the
\* cached value, whatever happened to the meals since; a request that finds
\* the entry gone (after expiry) computes and returns the value of the meals
\* as they are. The read is one that the store answers.
C15_MealsNeverTouchTheCache ==
    [][/\ MealStep => cache' = cache
       /\ (CacheIsRead /\ cacheClient /\ cache[acall.cache_key].value # <<>>)
              => /\ acall'.pc = "done"
                 /\ acall'.status = 200
                 /\ acall'.response =
                        <<ValidateAs(acall.kind,
                                     json_loads(cache[acall.cache_key].value))>>
       /\ (CacheIsRead /\ cache[acall.cache_key].value = <<>>)
              => acall'.pc = "compute"
       /\ (acall.pc = "set" /\ acall'.pc = "done")
              => /\ acall'.status = 200
                 /\ acall'.response = <<FreshOf(acall)>>]_vars

\* A daily request was answered from the cache with a value that the meals
\* no longer give, after a meal was created, updated or deleted.
C15_Witness ==
    /\ acall.pc = "done" /\ acall.kind = "daily" /\ acall.hit
    /\ acall.response # <<DailyAnalyticsOf(acall.user_id, acall.parsed_date)>>
    /\ \/ mcall.pc = "done" /\ mcall.status \in {200, 204}
       \/ \E c \in Calls : call[c].pc = "done" /\ call[c].status = 201

----------------------------------------------------------------------------
(* Properties of createMeal without a key, and of the life of a key.       *)

\* The finished calls that carried no Idempotency-Key and were answered 201.
KeylessCreated ==
    {c \in DoneCalls : call[c].key = None /\ call[c].status = 201}

\* C16: createMeal without an idempotency key never deduplicates. Every
\* successful keyless call inserted a row of its own, which no other call
\* returned, so the rows without a key are as many as the successful keyless
\* calls, whatever their inputs.
C16_KeylessNeverDeduplicates ==
    /\ \A c \in KeylessCreated :
          /\ call[c].inserted
          /\ call[c].result \in meals
          /\ call[c].result.idempotency_key = None
          /\ \A d \in DoneCalls \ {c} :
                call[d].status = 201 => call[d].result.id # call[c].result.id
    /\ Cardinality({m \in meals : m.idempotency_key = None})
         = Cardinality(KeylessCreated)

\* Two keyless calls with the same input both succeeded, with different rows.
C16_Witness ==
    \E c, d \in KeylessCreated :
        /\ c # d
        /\ call[c].user_id = call[d].user_id
        /\ call[c].food_id = call[d].food_id
        /\ call[c].servings = call[d].servings
        /\ call[c].timestamp = call[d].timestamp
        /\ call[c].result # call[d].result

\* The (id, user, key) bindings of the rows.
KeyBindings(rows) == {<<m.id, m.user_id, m.idempotency_key>> : m \in rows}

\* Call c takes its lookup step.
LooksUp(c) == call[c].pc = "lookup" /\ call'[c].pc # "lookup"

\* C17: an idempotency record lives exactly as long as its Meal. An update
\* keeps the key bound to the row; a replay that finds the user's meal with
\* the key returns that meal; a createMeal with a key inserts a row only when
\* the user has no meal with that key (none yet, or deleted since), and a
\* delete removes the row and with it the binding.
C17_KeyLivesAsLongAsTheMeal ==
    [][/\ (mcall.kind = "update" /\ mcall.pc = "commit" /\ mcall'.pc = "done")
              => KeyBindings(meals') = KeyBindings(meals)
       /\ (mcall.kind = "delete" /\ mcall.pc = "commit" /\ mcall'.status = 204)
              => KeyBindings(meals')
                   = KeyBindings(meals) \ KeyBindings({mcall.db_meal[1]})
       /\ \A c \in Calls :
             LET bound == MealsWithKey(call[c].user_id, call[c].key)
             IN /\ (LooksUp(c) /\ bound # {})
                       => /\ call'[c].pc = "done"
                          /\ call'[c].status = 201
                          /\ call'[c].result \in bound
                /\ (LooksUp(c) /\ bound = {}) => call'[c].pc = "getfood"
                /\ (call[c].key # None /\ ~call[c].inserted /\ call'[c].inserted)
                       => bound = {}]_vars

\* The part of C17 that the code keeps: updates and deletes change the
\* bindings as the claim says, a lookup that finds exactly one meal returns
\* it, one that finds none goes on to insert, and a call that saw the user's
\* meal with its key when it arrived inserted only if that meal was deleted.
KeyLivesWithMealSequentially ==
    /\ [][/\ (mcall.kind = "update" /\ mcall.pc = "commit" /\ mcall'.pc = "done")
                 => KeyBindings(meals') = KeyBindings(meals)
          /\ (mcall.kind = "delete" /\ mcall.pc = "commit" /\ mcall'.status = 204)
                 => KeyBindings(meals')
                      = KeyBindings(meals) \ KeyBindings({mcall.db_meal[1]})
          /\ \A c \in Calls :
                LET bound == MealsWithKey(call[c].user_id, call[c].key)
                IN /\ (LooksUp(c) /\ Cardinality(bound) = 1)
                          => /\ call'[c].pc = "done"
                             /\ call'[c].status = 201
                             /\ call'[c].result \in bound
                   /\ (LooksUp(c) /\ bound = {}) => call'[c].pc = "getfood"]_vars
    /\ [](\A c \in DoneCalls :
             (call[c].inserted /\ call[c].key # None /\ call[c].seen # {})
                 => \E m \in call[c].seen : m.id \notin {x.id : x \in meals})

\* Call c is the only call of its user that carried its key.
OnlyCallOfUserWithKey(c) ==
    \A d \in Calls \ {c} :
        call[d].pc # "idle"
            => ~(call[d].user_id = call[c].user_id /\ call[d].key = call[c].key)

\* C18: idempotency keys are scoped per user. No call is answered with a
\* meal of another user, and a user's one call with a key and an existing
\* food creates that user's meal, whichever other users used the same key:
\* it is answered 201 with the row it inserted, the user's only row with
\* that key.
C18_KeysAreScopedPerUser ==
    /\ \A c \in DoneCalls :
          call[c].status = 201 => call[c].result.user_id = call[c].user_id
    /\ \A c \in DoneCalls :
          (KeyedValidCall(c) /\ OnlyCallOfUserWithKey(c))
              => /\ call[c].status = 201
                 /\ call[c].inserted
                 /\ {m \in meals : m.user_id = call[c].user_id
                                     /\ m.idempotency_key = call[c].key}
                      = {call[c].result}

\* Two users each made one call with the same key, the second after the
\* first had its meal, and each has a meal of their own.
C18_Witness ==
    \E c, d \in DoneCalls :
        /\ call[c].user_id # call[d].user_id
        /\ call[c].key = call[d].key
        /\ KeyedValidCall(c) /\ KeyedValidCall(d)
        /\ OnlyCallOfUserWithKey(c) /\ OnlyCallOfUserWithKey(d)
        /\ call[c].result # call[d].result
        /\ call[c].result.id < call[d].result.id
        /\ c < d

----------------------------------------------------------------------------
(* Properties of the cache keys of the analytics routes.                   *)

\* C19: analytics cache keys never collide across users or dates. Whenever a
\* handler answers from the cache, the entry it read was written by a handler
\* of the same route for the same user and, for the daily route, the same
\* date.
C19_EntriesServeTheirWriter ==
    [][(acall.pc = "get" /\ acall'.hit)
          => writer[acall.cache_key] = <<WriterOf(acall)>>]_vars

\* A daily request was answered from the cache while the cache also held a
\* daily entry of another user or date.
C19_Witness ==
    /\ acall.pc = "done" /\ acall.kind = "daily" /\ acall.hit
    /\ \E k \in DailyKeys \ {acall.cache_key} : cache[k] # NoEntry

----------------------------------------------------------------------------
(* Properties of registration.                                             *)

\* The words of sub appear in text, one after the other.
ContainsWords(text, sub) ==
    \E i \in 0..(Len(text) - Len(sub)) :
        \A j \in 1..Len(sub) : text[i + j] = sub[j]

DoneRegistrations == {g \in Registrations : rcall[g].pc = "done"}

\* C20: registering with an email that an existing user already has is
\* rejected with status 409, error code "409" and a message containing
\* "already registered", and it creates no user: the users with that email
\* are the ones there were when the request arrived.
C20_DuplicateEmailIs409 ==
    \A g \in DoneRegistrations :
        rcall[g].existing # {}
        => /\ rcall[g].status = 409
           /\ rcall[g].body.error.code = "409"
           /\ ContainsWords(rcall[g].body.error.message,
                            <<"already", "registered">>)
           /\ ~rcall[g].inserted
           /\ UsersWithEmail(rcall[g].email) = rcall[g].existing
           /\ Cardinality(UsersWithEmail(rcall[g].email)) = 1

\* A registration was answered 201 and a later one with the same email 409.
C20_Witness ==
    \E g, h \in DoneRegistrations :
        /\ g < h
        /\ rcall[g].email = rcall[h].email
        /\ rcall[g].status = 201
        /\ rcall[h].existing # {}
        /\ rcall[h].status = 409

\* Two finished registrations with the same email overlapped: the later one
\* arrived before the earlier one was answered, so neither saw a user.
RacedRegistrations(g, h) ==
    /\ g # h
    /\ g \in DoneRegistrations /\ h \in DoneRegistrations
    /\ rcall[g].email = rcall[h].email
    /\ rcall[g].existing = {} /\ rcall[h].existing = {}

\* C21: two concurrent registrations with the same email, under every
\* interleaving of their check and insert steps, persist at most one user
\* with that email, and the request that loses is answered 409 (Conflict),
\* not 500.
C21_RaceLoserGetsConflict ==
    \A g, h \in Registrations :
        RacedRegistrations(g, h)
        => /\ Cardinality(UsersWithEmail(rcall[g].email)) <= 1
           /\ {rcall[g].status, rcall[h].status} = {201, 409}

\* The part of C21 that the code keeps: no email is ever stored twice, and
\* of two registrations that raced exactly one inserted.
AtMostOneUserPerEmail ==
    /\ \A e \in Emails : Cardinality(UsersWithEmail(e)) <= 1
    /\ \A g, h \in Registrations :
          RacedRegistrations(g, h) => rcall[g].inserted # rcall[h].inserted

\* The users that hold what registration g submitted.
UsersStoredFor(g) ==
    {u \in users :
        /\ u.email = rcall[g].email
        /\ u.name = rcall[g].name
        /\ u.daily_calorie_goal = rcall[g].daily_calorie_goal
        /\ verify_password(rcall[g].password, u.password_hash)}

\* C22: a successful registration returns 201 with a body that contains
\* access_token, refresh_token and token_type "bearer", and persists one
\* user whose stored fields are the submitted ones and whose password hash
\* verifies the submitted password.
C22_RegistrationReturnsTokens ==
    \A g \in DoneRegistrations :
        rcall[g].inserted
        => /\ rcall[g].status = 201
           /\ Cardinality(UsersStoredFor(g)) = 1
           /\ {"access_token", "refresh_token", "token_type"}
                \subseteq DOMAIN rcall[g].body
           /\ rcall[g].body.token_type = "bearer"

\* The part of C22 that the code keeps: the status and the stored user.
RegistrationPersistsUser ==
    \A g \in DoneRegistrations :
        rcall[g].inserted
        => /\ rcall[g].status = 201
           /\ Cardinality(UsersStoredFor(g)) = 1
           /\ UsersStoredFor(g) = UsersWithEmail(rcall[g].email)

\* The four totals of a meal row.
MacrosOf(m) == <<m.calories, m.protein_g, m.carbs_g, m.fat_g>>

\* The totals that the food of row m, as it is stored now, gives for the
\* servings of m.
FoodTimesServings(f, m) ==
    <<f[m.food_id].calories * m.servings, f[m.food_id].protein_g * m.servings,
      f[m.food_id].carbs_g * m.servings, f[m.food_id].fat_g * m.servings>>

\* A step in which create_meal_log stores the row of call c.
CreateStores(c) ==
    /\ call[c].pc = "commit"
    /\ call'[c].pc = "done"
    /\ call'[c].inserted

\* A step in which update_meal_log stores the row it changed.
UpdateStores ==
    /\ mcall.kind = "update"
    /\ mcall.pc = "commit"
    /\ mcall'.pc = "done"
    /\ mcall'.status = 200

\* C23: a created meal stores the food's values times servings; after an
\* update that changes servings the stored totals are the food's values
\* times the new servings; an update that does not change servings leaves
\* the four totals as they were.
C23_MacrosFollowServings ==
    [][/\ \A c \in Calls :
            CreateStores(c)
            => /\ call'[c].result \in meals'
               /\ MacrosOf(call'[c].result)
                    = FoodTimesServings(foods, call'[c].result)
       /\ UpdateStores
            => LET old == mcall.db_meal[1]
                   new == mcall'.result[1]
               IN /\ new \in meals'
                  /\ IF new.servings # old.servings
                     THEN MacrosOf(new) = FoodTimesServings(foods, new)
                     ELSE MacrosOf(new) = MacrosOf(old)]_vars

\* C23 as the code keeps it: the same for creation and for an update that
\* changes servings; an update whose body does not set servings leaves the
\* four totals as they were.
MacrosFollowServingsSet ==
    [][/\ \A c \in Calls :
            CreateStores(c)
            => /\ call'[c].result \in meals'
               /\ MacrosOf(call'[c].result)
                    = FoodTimesServings(foods, call'[c].result)
       /\ UpdateStores
            => LET old == mcall.db_meal[1]
                   new == mcall'.result[1]
               IN /\ new \in meals'
                  /\ new.servings # old.servings
                     => MacrosOf(new) = FoodTimesServings(foods, new)
                  /\ mcall.servings = <<>>
                     => MacrosOf(new) = MacrosOf(old)]_vars

\* An update has changed the servings of a meal, and another update, sent
\* after the food was corrected, did not set servings.
ServingsWereChanged ==
    /\ mcall.pc = "done"
    /\ mcall.kind = "update"
    /\ mcall.status = 200
    /\ mcall.servings = <<>>
    /\ mcall.result[1].servings = 2
    /\ \E c \in Calls : call[c].pc = "done" /\ call[c].inserted
                          /\ call[c].servings = 1
                          /\ call[c].result.id = mcall.result[1].id
    /\ foods # FoodTable

\* The calls that an exception other than HTTPException ended.
CrashedCalls == {c \in DoneCalls : call[c].error # ""}

\* C24: a call that an unexpected exception ended is answered 500 with a
\* message that is one fixed text of the function that failed, whatever
\* the exception: two calls that failed in the same function have the same
\* body.
C24_InternalErrorsAreOpaque ==
    \A c, d \in CrashedCalls :
        /\ call[c].status = 500
        /\ call[c].body # <<>>
        /\ call[c].body[1].error.message \in {CreateMealFailed, InternalServerError}
        /\ call[c].raisedIn = call[d].raisedIn => call[c].body = call[d].body

\* Two calls failed in the route with different exceptions, and one in the
\* dependency.
DifferentErrorsSameHandler ==
    \E c, d, e \in CrashedCalls :
        /\ call[c].raisedIn = "create_meal_log"
        /\ call[d].raisedIn = "create_meal_log"
        /\ call[c].error # call[d].error
        /\ call[e].raisedIn = "get_current_user"

\* What a handler of this kind hands to set_cached_data for its result.
DumpAs(kind, data) ==
    CASE kind = "daily" -> model_dump(data)
      [] kind = "weekly" -> trends_dicts(data)
      [] kind = "reco" -> reco_dump(data)

\* The handler writes its result to the cache in this step and the store
\* takes it.
CacheIsWritten ==
    /\ acall.pc = "set"
    /\ acall'.pc = "done"
    /\ cacheClient
    /\ ~acall'.setFailed

\* C25: the analytics handlers read through the cache. A request that finds
\* the entry of its key returns the cached value and does not compute; one
\* that finds none computes from the rows, writes the result under the same
\* key with the time to live of the handlers and returns it; the entry stays
\* as written until its time to live has run out, so that an identical
\* request within that time is served from the cache. The store is the one
\* that answers.
C25_AnalyticsReadThrough ==
    [][/\ (CacheIsRead /\ cacheClient /\ cache[acall.cache_key] # NoEntry)
              => /\ acall'.pc = "done"
                 /\ acall'.hit
                 /\ acall'.status = 200
                 /\ acall'.analytics_data = <<>>
                 /\ acall'.response =
                        <<ValidateAs(acall.kind,
                                     json_loads(cache[acall.cache_key].value))>>
       /\ (CacheIsRead /\ cache[acall.cache_key] = NoEntry)
              => acall'.pc = "compute" /\ ~acall'.hit
       /\ (acall.pc = "compute" /\ acall'.pc = "set")
              => acall'.analytics_data = <<FreshOf(acall)>>
       /\ CacheIsWritten
              => /\ cache' = [cache EXCEPT ![acall.cache_key] =
                        [value |-> json_dumps(DumpAs(acall.kind,
                                                     acall.analytics_data[1])),
                         expireAt |-> now + analytics_expiry_seconds]]
                 /\ acall'.status = 200
                 /\ acall'.response = acall.analytics_data
       /\ \A k \in AnalyticsKeys :
              (cache[k] # NoEntry /\ cache'[k] # cache[k])
              => \/ now' >= cache[k].expireAt
                 \/ CacheIsWritten /\ acall.cache_key = k]_vars

\* A weekly request was served from the entry that an identical request
\* before it wrote.
SecondRequestServedFromCache ==
    /\ acall.pc = "done" /\ acall.kind = "weekly" /\ acall.hit
    /\ acall.status = 200
    /\ writer[acall.cache_key] = <<WriterOf(acall)>>
    /\ acall.response = <<WeeklyTrendsOf(acall.user_id)>>

----------------------------------------------------------------------------
(* Properties of what the rate limiter records and reports.                *)

\* C26: every admitted call adds exactly one entry to the entries of its
\* identifier that the purge of the same pipeline leaves, also when another
\* request was admitted in the same second.
C26_EachAdmissionAddsOne ==
    [][\A r \in Requests :
          (req[r].pc = "counted" /\ req'[r].outcome = "admitted")
          => ZCard(zset')
               = ZCard(ZRemRangeByScore(
                          zset, 0, req[r].current_time - rate_limit_window)) + 1]_vars

----------------------------------------------------------------------------
(* Properties of a key that was used before.                               *)

\* C27: a createMeal whose key the user had already stored a meal with when
\* it arrived, whatever calls ran before it, is answered 201 with a meal that
\* carries the key; it never fails because several rows match the lookup.
C27_UsedKeyAlwaysSucceeds ==
    \A c \in DoneCalls :
        (call[c].key # None /\ call[c].seen # {})
        => /\ call[c].status = 201
           /\ call[c].result.idempotency_key = call[c].key
           /\ call[c].error # "MultipleResultsFound"

\* C28: the reset time of a rejection lies after the second in which
\* is_allowed read the clock and at most one window after it. The call is
\* one that rejects in the second in which it read the clock.
C28_ResetTimeIsAhead ==
    [][\A r \in Requests :
          (/\ req[r].pc = "rejecting"
           /\ req'[r].outcome = "rejected"
           /\ req[r].current_time = now)
          => /\ req[r].current_time < req'[r].reset_time
             /\ req'[r].reset_time <= req[r].current_time + rate_limit_window]_vars

\* A step in which is_allowed rejects the call of request r.
Rejects(r) == req[r].pc = "rejecting" /\ req'[r].outcome = "rejected"

\* Request r reads the count, in the second in which it read the clock, more
\* than one window after the last request that was admitted.
CountsAfterTheWindow(r) ==
    /\ req[r].pc = "begun"
    /\ req'[r].pc \in {"rejecting", "counted"}
    /\ req[r].current_time = now
    /\ AdmittedRequests # {}
    /\ \A q \in AdmittedRequests :
          req[q].current_time + rate_limit_window < req[r].current_time

\* C29: a rejected call changes nothing in the store (no entry added, none
\* purged, the expiry of the key not refreshed), and the first request that
\* an identifier makes more than one window after its last admitted request
\* is admitted, whatever was rejected in between.
C29_RejectionIsQuietAndEnds ==
    [][\A r \in Requests :
          /\ Rejects(r) => (zset' = zset /\ zttl' = zttl)
          /\ CountsAfterTheWindow(r) => req'[r].pc = "counted"]_vars

\* The part of C29 that the code keeps: a rejection leaves the store as it
\* was.
RejectionLeavesStoreAlone ==
    [][\A r \in Requests : Rejects(r) => (zset' = zset /\ zttl' = zttl)]_vars

----------------------------------------------------------------------------
(* Properties of the isolation of meals between users.                     *)

\* The rows that user u does not own.
MealsOfOthers(rows, u) == {m \in rows : m.user_id # u}

\* The request being served names a meal that another user owns.
NamesForeignMeal ==
    \E m \in meals : m.id = mcall.meal_id /\ m.user_id # mcall.user_id

\* C30: meals are isolated per user. A get, update or delete by id that names
\* a meal of another user is answered 404 and changes no row; no step of a
\* request changes a row of another user; a meal returned by id and every
\* item of a list belong to the user who asked.
C30_MealsAreIsolated ==
    [][/\ (mcall.pc = "select" /\ mcall' # mcall /\ NamesForeignMeal)
              => /\ mcall'.pc = "done"
                 /\ mcall'.status = 404
                 /\ mcall'.result = <<>>
                 /\ meals' = meals
       /\ mcall' # mcall
              => MealsOfOthers(meals', mcall'.user_id)
                   = MealsOfOthers(meals, mcall'.user_id)
       /\ (mcall' # mcall /\ mcall'.kind \in {"get", "update"}
             /\ mcall'.status = 200)
              => mcall'.result[1].user_id = mcall'.user_id
       /\ (mcall' # mcall /\ mcall'.kind = "list")
              => /\ mcall'.status = 200
                 /\ \A i \in 1..Len(mcall'.result[1].items) :
                       /\ mcall'.result[1].items[i].user_id = mcall'.user_id
                       /\ mcall'.result[1].items[i] \in meals
                 /\ mcall'.result[1].total
                       <= Cardinality(meals \ MealsOfOthers(meals, mcall'.user_id))]_vars

\* Both users have a meal, and a delete that named the meal of the other
\* user was answered 404.
ForeignMealWasRefused ==
    /\ mcall.pc = "done"
    /\ mcall.kind = "delete"
    /\ mcall.status = 404
    /\ NamesForeignMeal
    /\ \E m \in meals : m.user_id = mcall.user_id

====
